---------------------------- MODULE Spec2Model ----------------------------
(***************************************************************************)
(* Model of the financial-llm-analyzer backend and of the client streams.  *)
(*                                                                         *)
(*   SpecServer     the Express server (routes, analysisCache, uploads     *)
(*                  directory, SSE streams)                                *)
(*   SpecRetry      openaiChatCompletion and its retry loop                *)
(*   SpecRerank     rerankChunks and its fallback                          *)
(*   SpecReport     generateReportSections, from cleaning to the sections  *)
(*   SpecRetrieval  intelligentRetrieval / hybridSearch over one index     *)
(*   SpecSection    the retrieval of one section in the section loop       *)
(*   SpecFusion     reciprocalRankFusion over two ranked lists             *)
(*   SpecChunking   splitTextIntoSemanticChunks over a cleaned text        *)
(*   SpecLexical    tokenize and BM25Index: construction and search        *)
(*   SpecQuery      processQuery: decomposition and expansion              *)
(*   SpecClassify   classifyDocument: heuristics and the LLM fallback      *)
(*   SpecSession    concurrent report and Q&A requests on the uploads      *)
(*                  directory and the analysisCache                        *)
(*   SpecTables     detectTables and buildRegion over a text               *)
(*   SpecClient     the page: readSSEStream under handleAnalyze            *)
(*                                                                         *)
(* Each specification drives its own group of variables and leaves the     *)
(* other groups at their idle value.                                       *)
(***************************************************************************)
EXTENDS Integers, Sequences, FiniteSets, TLC

VARIABLES
    apiKey,         \* process.env.OPENAI_API_KEY is set
    onDisk,         \* files present in the uploads directory
    analysisCache,  \* keys of the analysisCache Map
    req,            \* the requests in flight, one record per connection
    call,           \* one call of openaiChatCompletion
    rr,             \* one call of rerankChunks
    run,            \* one run of generateReportSections
    ret,            \* a search index and one call of intelligentRetrieval
    sec,            \* the retrieval of one report section
    fu,             \* one call of reciprocalRankFusion
    ck,             \* one call of splitTextIntoSemanticChunks
    lex,            \* a BM25Index and one call of its search
    qp,             \* one call of processQuery
    cls,            \* one call of classifyDocument
    ss,             \* uploads directory and analysisCache, concurrent requests
    tb,             \* one call of detectTables
    cl              \* the page and one streaming call of the client

vars == <<apiKey, onDisk, analysisCache, req, call, rr, run, ret, sec, fu, ck, lex, qp, cls, ss, tb, cl>>

\* the variables each part of the model leaves alone
offServer == <<call, rr, run, ret, sec, fu, ck, lex, qp, cls, ss, tb, cl>>
offRetry == <<apiKey, onDisk, analysisCache, req, rr, run, ret, sec, fu, ck, lex, qp, cls, ss, tb, cl>>
offRerank == <<apiKey, onDisk, analysisCache, req, call, run, ret, sec, fu, ck, lex, qp, cls, ss, tb, cl>>
offReport == <<apiKey, onDisk, analysisCache, req, call, rr, ret, sec, fu, ck, lex, qp, cls, ss, tb, cl>>
offRetrieval == <<apiKey, onDisk, analysisCache, req, call, rr, run, sec, fu, ck, lex, qp, cls, ss, tb, cl>>
offSection == <<apiKey, onDisk, analysisCache, req, call, rr, run, ret, fu, ck, lex, qp, cls, ss, tb, cl>>
offFusion == <<apiKey, onDisk, analysisCache, req, call, rr, run, ret, sec, ck, lex, qp, cls, ss, tb, cl>>
offChunking == <<apiKey, onDisk, analysisCache, req, call, rr, run, ret, sec, fu, lex, qp, cls, ss, tb, cl>>
offLexical == <<apiKey, onDisk, analysisCache, req, call, rr, run, ret, sec, fu, ck, qp, cls, ss, tb, cl>>
offQuery == <<apiKey, onDisk, analysisCache, req, call, rr, run, ret, sec, fu, ck, lex, cls, ss, tb, cl>>
offClassify == <<apiKey, onDisk, analysisCache, req, call, rr, run, ret, sec, fu, ck, lex, qp, ss, tb, cl>>
offSession == <<apiKey, onDisk, analysisCache, req, call, rr, run, ret, sec, fu, ck, lex, qp, cls, tb, cl>>
offTables == <<apiKey, onDisk, analysisCache, req, call, rr, run, ret, sec, fu, ck, lex, qp, cls, ss, cl>>
offClient == <<apiKey, onDisk, analysisCache, req, call, rr, run, ret, sec, fu, ck, lex, qp, cls, ss, tb>>

(***************************************************************************)
(* Bounds                                                                  *)
(***************************************************************************)
MaxStreamEvents == 2    \* events one orchestrator run forwards to onEvent
MaxRetries == 4         \* largest retry budget a caller passes
MaxChunks == 4          \* chunks handed to rerankChunks
MaxTopK == 3            \* largest topK a caller of rerankChunks passes
MaxRanking == 2         \* entries of the array the reranking LLM returns
MaxParagraphs == 3      \* paragraphs (page markers included) of a document
NumChunks == 3          \* chunks of the indexed document
MaxLimit == 2           \* largest per-query limit (CHUNKS_PER_QUERY)
MaxRank == 3            \* longest ranked list handed to reciprocalRankFusion
MaxK == 2               \* largest RRF constant tried on those lists
MaxLines == 5           \* lines of the cleaned text handed to the chunker
MaxDocs == 2            \* documents of a BM25Index
MaxWords == 8           \* words of a question
MaxParsed == 4          \* elements of the array the decomposition LLM returns
MaxRuns == 3            \* pipeline runs the server starts
MaxTableLines == 8      \* lines of a text handed to detectTables alone
MaxClientEvents == 3    \* events of one SSE stream the client reads

(***************************************************************************)
(* Express server                                                          *)
(***************************************************************************)
Files == {"a.pdf", "b.pdf"}
NoFile == "none"
Conns == {"c1", "c2"}
FileArgs == Files \cup {NoFile}

ReportKinds == {"generate-report", "generate-report-stream",
                "compare-reports", "compare-reports-stream"}
AskKinds == {"ask-question", "ask-question-stream"}
StreamKinds == {"generate-report-stream", "ask-question-stream",
                "compare-reports-stream"}

\* the connection c2 carries the Q&A traffic, c1 the report traffic
KindsOf(c) == IF c = "c1" THEN ReportKinds ELSE AskKinds

TerminalEvents == {"complete", "done", "error"}

\* processDocument: text, empty text, or a rejection
Extraction == {"text", "empty", "throw"}

IdleReq ==
    [kind |-> "none", pc |-> "idle", fa |-> NoFile, fb |-> NoFile,
     companyGiven |-> FALSE, paramsGiven |-> FALSE,
     status |-> 0, sse |-> FALSE, last |-> "none", terminals |-> 0,
     trailing |-> FALSE, ended |-> FALSE,
     emitted |-> 0, unlinked |-> {}, present |-> {}, wrote |-> {},
     miss |-> FALSE, ranQA |-> FALSE, connected |-> TRUE, late |-> FALSE,
     failedAt |-> "none"]

\* sendError(res, status, message): res.status(status).json(...)
sendError(q, code) == [q EXCEPT !.status = code]

\* setupSSE(res): res.writeHead(200, text/event-stream)
setupSSE(q) == [q EXCEPT !.status = 200, !.sse = TRUE]

\* sendSSE(res, data): res.write(...), whatever the state of the connection
sendSSE(q, type) ==
    [q EXCEPT !.last = type,
              !.terminals = IF type \in TerminalEvents THEN @ + 1 ELSE @,
              !.trailing = @ \/ q.terminals > 0,
              !.late = @ \/ ~q.connected]

\* res.end()
resEnd(q) == [q EXCEPT !.ended = TRUE]

\* fs.unlink(filePath, cb): the deletion is issued
unlink(q, f) == [q EXCEPT !.unlinked = @ \cup {f}]

\* analysisCache.set(filename, ...)
cacheSet(q, f) == [q EXCEPT !.wrote = @ \cup {f}]

Returned(q) == [q EXCEPT !.pc = "done", !.emitted = 0]

Failed(q, where) == [q EXCEPT !.failedAt = where]

Set(c, q) == req' = [req EXCEPT ![c] = q]

\* openaiChatCompletion not called
IdleCall ==
    [pc |-> "idle", retries |-> 0, attempt |-> 0, requests |-> 0,
     responses |-> <<>>, delays |-> <<>>, result |-> "none"]

\* rerankChunks not called
IdleRerank ==
    [pc |-> "idle", n |-> 0, topK |-> 0, enabled |-> TRUE, outcome |-> "none",
     ranking |-> <<>>, result |-> <<>>]

\* generateReportSections not called
IdleRun ==
    [pc |-> "idle", raw |-> <<>>, cleaned |-> <<>>, chunks |-> <<>>,
     indexBuilt |-> FALSE, section |-> 0, retrieved |-> 0, excerpts |-> <<>>,
     generated |-> 0, sections |-> <<>>, steps |-> <<>>, responses |-> <<>>,
     failedAt |-> "none"]

\* no index built, intelligentRetrieval not called
IdleRetrieval ==
    [pc |-> "idle", md |-> <<>>, hasBm25 |-> FALSE, enabled |-> TRUE,
     topK |-> 0, filter |-> {}, sem |-> <<>>, bm |-> <<>>, result |-> <<>>]

\* the section loop before its retrieval
IdleSection ==
    [pc |-> "idle", md |-> <<>>, enabled |-> TRUE, limit |-> 0,
     fused |-> <<>>, filteredDocs |-> <<>>, unfilteredDocs |-> <<>>,
     relevantDocs |-> <<>>, retried |-> FALSE]

\* reciprocalRankFusion not called
IdleFusion ==
    [pc |-> "idle", resultSets |-> <<<<>>, <<>>>>, k |-> 0, fused |-> <<>>]

\* splitTextIntoSemanticChunks not called, the text still being written
IdleChunking ==
    [pc |-> "idle", text |-> <<>>, documents |-> <<>>]

\* no BM25Index constructed yet, the documents still being collected
IdleLexical ==
    [pc |-> "idle", documents |-> <<>>, docData |-> <<>>, query |-> <<>>,
     topK |-> 0, queryTokens |-> <<>>, results |-> <<>>]

\* processQuery not called
IdleQuery ==
    [pc |-> "idle", decompositionEnabled |-> TRUE, expansionEnabled |-> TRUE,
     question |-> <<>>, response |-> "none", parsed |-> <<>>, fetches |-> 0,
     subQueries |-> <<>>, expandedQueries |-> <<>>]

NoResult == [type |-> "", confidence |-> 0]

IdleClassify ==
    [pc |-> "idle", enabled |-> TRUE, text |-> {}, heuristic |-> NoResult,
     fetches |-> 0, response |-> "none", parsed |-> NoResult,
     result |-> NoResult]

\* no cache entry for a filename
NoEntry == [vectorStore |-> 0, bm25Index |-> 0]

\* a connection without a request
IdleSessionReq ==
    [kind |-> "none", pc |-> "idle", fa |-> NoFile, fb |-> NoFile,
     status |-> 0, found |-> FALSE, gone |-> FALSE, runA |-> 0, runB |-> 0,
     cached |-> NoEntry, hadReport |-> FALSE]

SessionConns == {"r1", "r2", "q1"}

\* the claims on sessions are about requests that name one file; the cache
\* and the uploads directory keep the files apart
SessionFiles == {"a.pdf"}

\* detectTables not called
IdleTables == [pc |-> "idle", lines |-> <<>>, tables |-> <<>>]

\* the page before handleAnalyze
IdleClient ==
    [pc |-> "idle", events |-> <<>>, stream |-> <<>>, read |-> 0,
     buffer |-> <<>>, delivered |-> <<>>, caught |-> 0,
     outcome |-> "pending", toast |-> "none"]

\* the server after start: empty uploads directory, empty analysisCache
IdleSession ==
    [disk |-> {}, unlinking |-> {},
     cache |-> [f \in SessionFiles |-> NoEntry],
     reqs |-> [c \in SessionConns |-> IdleSessionReq],
     runs |-> 0, built |-> {}, last |-> [f \in SessionFiles |-> 0]]

ServerIdle ==
    /\ apiKey = TRUE
    /\ onDisk = {}
    /\ analysisCache = {}
    /\ req = [c \in Conns |-> IdleReq]

ServerInit ==
    /\ call = IdleCall
    /\ rr = IdleRerank
    /\ run = IdleRun
    /\ ret = IdleRetrieval
    /\ sec = IdleSection
    /\ fu = IdleFusion
    /\ ck = IdleChunking
    /\ lex = IdleLexical
    /\ qp = IdleQuery
    /\ cls = IdleClassify
    /\ ss = IdleSession
    /\ tb = IdleTables
    /\ cl = IdleClient
    /\ apiKey \in BOOLEAN
    /\ onDisk = {}
    /\ analysisCache = {}
    /\ req = [c \in Conns |-> IdleReq]

\* POST /api/upload (multer disk storage)
Upload(f) ==
    /\ f \notin onDisk
    /\ onDisk' = onDisk \cup {f}
    /\ UNCHANGED <<offServer, apiKey, analysisCache, req>>

\* the client of a stream goes away; the server registers no close handler
ClientDisconnect(c) ==
    /\ req[c].sse /\ req[c].pc # "done" /\ req[c].connected
    /\ Set(c, [req[c] EXCEPT !.connected = FALSE])
    /\ UNCHANGED <<offServer, apiKey, onDisk, analysisCache>>

\* the connection is closed and a later request reuses the slot
Reset(c) ==
    /\ req[c].pc = "done"
    /\ Set(c, IdleReq)
    /\ UNCHANGED <<offServer, apiKey, onDisk, analysisCache>>

Arrive(c, kind, fa, fb) ==
    [IdleReq EXCEPT !.kind = kind, !.fa = fa, !.fb = fb,
                    !.present = {fa, fb} \cap onDisk]

-----------------------------------------------------------------------------
(* POST /api/generate-report *)

\* the cache entry written in the finally block
GenerateReportFinallyCaching(q) == Returned(unlink(cacheSet(q, q.fa), q.fa))

\* the finally block
GenerateReportFinally(q) == Returned(unlink(q, q.fa))

\* the catch block
GenerateReportCatch(q, where) ==
    GenerateReportFinally(Failed(sendError(q, 500), where))

GenerateReport(c, f, cg) ==
    /\ req[c].pc = "idle" /\ "generate-report" \in KindsOf(c)
    /\ LET q == [Arrive(c, "generate-report", f, NoFile)
                    EXCEPT !.companyGiven = cg] IN
       Set(c, IF f = NoFile \/ ~apiKey THEN Returned(sendError(q, 400))
              ELSE IF f \notin onDisk THEN Returned(sendError(q, 404))
              ELSE [q EXCEPT !.pc = "processing"])
    /\ UNCHANGED <<offServer, apiKey, onDisk, analysisCache>>

\* await processDocument(...) settles
GenerateReportProcessed(c, outcome) ==
    /\ req[c].kind = "generate-report" /\ req[c].pc = "processing"
    /\ LET q == req[c] IN
       /\ Set(c, CASE outcome = "throw" -> GenerateReportCatch(q, "processing")
                   [] outcome = "empty" ->
                        GenerateReportFinally(
                            Failed(sendError(q, 400), "empty"))
                   [] OTHER ->
                        [q EXCEPT !.pc = IF q.companyGiven THEN "pipeline"
                                         ELSE "company"])
       /\ onDisk' = IF outcome = "text" THEN onDisk
                     ELSE onDisk \ {q.fa}
    /\ UNCHANGED <<offServer, apiKey, analysisCache>>

\* await extractCompanyName(...) settles
GenerateReportCompany(c, ok) ==
    /\ req[c].kind = "generate-report" /\ req[c].pc = "company"
    /\ LET q == req[c] IN
       /\ Set(c, IF ok THEN [q EXCEPT !.pc = "pipeline"]
                 ELSE GenerateReportCatch(q, "company"))
       /\ onDisk' = IF ok THEN onDisk ELSE onDisk \ {q.fa}
    /\ UNCHANGED <<offServer, apiKey, analysisCache>>

\* await generateReportSections(...) settles
GenerateReportPipeline(c, ok) ==
    /\ req[c].kind = "generate-report" /\ req[c].pc = "pipeline"
    /\ LET q == req[c] IN
       /\ Set(c, IF ok
                 THEN GenerateReportFinally(sendError(cacheSet(q, q.fa), 200))
                 ELSE GenerateReportCatch(q, "pipeline"))
       /\ analysisCache' = IF ok THEN analysisCache \cup {q.fa}
                           ELSE analysisCache
       /\ onDisk' = onDisk \ {q.fa}
    /\ UNCHANGED <<offServer, apiKey>>

-----------------------------------------------------------------------------
(* POST /api/generate-report-stream *)

\* the finally block: res.end(), then fs.unlink
GenerateReportStreamFinally(q) == Returned(unlink(resEnd(q), q.fa))

\* the catch block
GenerateReportStreamCatch(q, where) ==
    GenerateReportStreamFinally(Failed(sendSSE(q, "error"), where))

\* the empty-text branch without its return: the handler goes on to complete
GenerateReportStreamEmptyNoReturn(q) ==
    Returned(unlink(resEnd(sendSSE(sendSSE(q, "error"), "complete")), q.fa))

\* text extraction returned empty: error event, return res.end(), finally
GenerateReportStreamEmpty(q) ==
    GenerateReportStreamFinally(resEnd(Failed(sendSSE(q, "error"), "empty")))

\* the handler's last statements in the try block, then finally
GenerateReportStreamComplete(q) ==
    GenerateReportStreamFinally(sendSSE(cacheSet(q, q.fa), "complete"))

GenerateReportStream(c, f, cg) ==
    /\ req[c].pc = "idle" /\ "generate-report-stream" \in KindsOf(c)
    /\ LET q == [Arrive(c, "generate-report-stream", f, NoFile)
                    EXCEPT !.companyGiven = cg] IN
       Set(c, IF f = NoFile \/ ~apiKey THEN Returned(sendError(q, 400))
              ELSE IF f \notin onDisk THEN Returned(sendError(q, 404))
              ELSE [sendSSE(setupSSE(q), "progress")
                        EXCEPT !.pc = "processing"])
    /\ UNCHANGED <<offServer, apiKey, onDisk, analysisCache>>

GenerateReportStreamProcessed(c, outcome) ==
    /\ req[c].kind = "generate-report-stream" /\ req[c].pc = "processing"
    /\ LET q == req[c] IN
       /\ Set(c, CASE outcome = "throw" ->
                        GenerateReportStreamCatch(q, "processing")
                   [] outcome = "empty" -> GenerateReportStreamEmpty(q)
                   [] OTHER ->
                        IF q.companyGiven
                        THEN [sendSSE(q, "progress") EXCEPT !.pc = "pipeline"]
                        ELSE [sendSSE(q, "progress") EXCEPT !.pc = "company"])
       /\ onDisk' = IF outcome = "text" THEN onDisk
                     ELSE onDisk \ {q.fa}
    /\ UNCHANGED <<offServer, apiKey, analysisCache>>

GenerateReportStreamCompany(c, ok) ==
    /\ req[c].kind = "generate-report-stream" /\ req[c].pc = "company"
    /\ LET q == req[c] IN
       /\ Set(c, IF ok THEN [sendSSE(q, "progress") EXCEPT !.pc = "pipeline"]
                 ELSE GenerateReportStreamCatch(q, "company"))
       /\ onDisk' = IF ok THEN onDisk ELSE onDisk \ {q.fa}
    /\ UNCHANGED <<offServer, apiKey, analysisCache>>

\* generateReportSectionsStreaming calls onEvent: (event) => sendSSE(res, event)
GenerateReportStreamEvent(c) ==
    /\ req[c].kind = "generate-report-stream" /\ req[c].pc = "pipeline"
    /\ req[c].emitted < MaxStreamEvents
    /\ Set(c, [sendSSE(req[c], "section") EXCEPT !.emitted = @ + 1])
    /\ UNCHANGED <<offServer, apiKey, onDisk, analysisCache>>

\* await generateReportSectionsStreaming(...) settles
GenerateReportStreamPipeline(c, ok) ==
    /\ req[c].kind = "generate-report-stream" /\ req[c].pc = "pipeline"
    /\ LET q == req[c] IN
       /\ Set(c, IF ok THEN GenerateReportStreamComplete(q)
                 ELSE GenerateReportStreamCatch(q, "pipeline"))
       /\ analysisCache' = IF ok THEN analysisCache \cup {q.fa}
                           ELSE analysisCache
       /\ onDisk' = onDisk \ {q.fa}
    /\ UNCHANGED <<offServer, apiKey>>

-----------------------------------------------------------------------------
(* POST /api/ask-question *)

\* the handler with the cache lookup inside the try block
AskQuestionLookupInTry(c, f, pg) ==
    /\ req[c].pc = "idle" /\ "ask-question" \in KindsOf(c)
    /\ LET q == [Arrive(c, "ask-question", f, NoFile)
                    EXCEPT !.paramsGiven = pg,
                           !.miss = f # NoFile /\ f \notin analysisCache] IN
       Set(c, IF f = NoFile \/ ~pg \/ ~apiKey THEN Returned(sendError(q, 400))
              ELSE IF f \notin analysisCache
                   THEN Returned(Failed(sendError(q, 500), "answering"))
              ELSE [q EXCEPT !.pc = "answering", !.ranQA = TRUE])
    /\ UNCHANGED <<offServer, apiKey, onDisk, analysisCache>>

AskQuestion(c, f, pg) ==
    /\ req[c].pc = "idle" /\ "ask-question" \in KindsOf(c)
    /\ LET q == [Arrive(c, "ask-question", f, NoFile)
                    EXCEPT !.paramsGiven = pg,
                           !.miss = f # NoFile /\ f \notin analysisCache] IN
       Set(c, IF f = NoFile \/ ~pg \/ ~apiKey THEN Returned(sendError(q, 400))
              ELSE IF f \notin analysisCache
                   THEN Returned(sendError(q, 404))
              ELSE [q EXCEPT !.pc = "answering", !.ranQA = TRUE])
    /\ UNCHANGED <<offServer, apiKey, onDisk, analysisCache>>

\* await answerQuestion(...) settles
AskQuestionAnswered(c, ok) ==
    /\ req[c].kind = "ask-question" /\ req[c].pc = "answering"
    /\ Set(c, IF ok THEN Returned(sendError(req[c], 200))
              ELSE Returned(Failed(sendError(req[c], 500), "answering")))
    /\ UNCHANGED <<offServer, apiKey, onDisk, analysisCache>>

-----------------------------------------------------------------------------
(* POST /api/ask-question-stream *)

AskQuestionStreamFinally(q) == Returned(resEnd(q))

AskQuestionStreamCatch(q) ==
    AskQuestionStreamFinally(Failed(sendSSE(q, "error"), "answering"))

AskQuestionStreamDone(q) == AskQuestionStreamFinally(sendSSE(q, "done"))

AskQuestionStream(c, f, pg) ==
    /\ req[c].pc = "idle" /\ "ask-question-stream" \in KindsOf(c)
    /\ LET q == [Arrive(c, "ask-question-stream", f, NoFile)
                    EXCEPT !.paramsGiven = pg,
                           !.miss = f # NoFile /\ f \notin analysisCache] IN
       Set(c, IF f = NoFile \/ ~pg \/ ~apiKey THEN Returned(sendError(q, 400))
              ELSE IF f \notin analysisCache
                   THEN Returned(sendError(q, 404))
              ELSE [setupSSE(q) EXCEPT !.pc = "answering", !.ranQA = TRUE])
    /\ UNCHANGED <<offServer, apiKey, onDisk, analysisCache>>

\* answerQuestionStream calls onChunk: (chunk) => sendSSE(res, {type: 'chunk'})
AskQuestionStreamChunk(c) ==
    /\ req[c].kind = "ask-question-stream" /\ req[c].pc = "answering"
    /\ req[c].emitted < MaxStreamEvents
    /\ Set(c, [sendSSE(req[c], "chunk") EXCEPT !.emitted = @ + 1])
    /\ UNCHANGED <<offServer, apiKey, onDisk, analysisCache>>

\* await answerQuestionStream(...) settles
AskQuestionStreamAnswered(c, ok) ==
    /\ req[c].kind = "ask-question-stream" /\ req[c].pc = "answering"
    /\ Set(c, IF ok THEN AskQuestionStreamDone(req[c])
              ELSE AskQuestionStreamCatch(req[c]))
    /\ UNCHANGED <<offServer, apiKey, onDisk, analysisCache>>

-----------------------------------------------------------------------------
(* POST /api/compare-reports *)

CompareReportsFinally(q) == Returned(unlink(unlink(q, q.fa), q.fb))

CompareReportsCatch(q, where) ==
    CompareReportsFinally(Failed(sendError(q, 500), where))

CompareReports(c, fa, fb) ==
    /\ req[c].pc = "idle" /\ "compare-reports" \in KindsOf(c)
    /\ LET q == Arrive(c, "compare-reports", fa, fb) IN
       Set(c, IF fa = NoFile \/ fb = NoFile \/ ~apiKey
              THEN Returned(sendError(q, 400))
              ELSE IF fa \notin onDisk \/ fb \notin onDisk
                   THEN Returned(sendError(q, 404))
              ELSE [q EXCEPT !.pc = "processing"])
    /\ UNCHANGED <<offServer, apiKey, onDisk, analysisCache>>

\* await Promise.all([processDocument(A), processDocument(B)]) settles
CompareReportsProcessed(c, outcome) ==
    /\ req[c].kind = "compare-reports" /\ req[c].pc = "processing"
    /\ LET q == req[c] IN
       /\ Set(c, CASE outcome = "throw" -> CompareReportsCatch(q, "processing")
                   [] outcome = "empty" ->
                        CompareReportsFinally(
                            Failed(sendError(q, 400), "empty"))
                   [] OTHER -> [q EXCEPT !.pc = "company"])
       /\ onDisk' = IF outcome = "text" THEN onDisk
                     ELSE onDisk \ {q.fa, q.fb}
    /\ UNCHANGED <<offServer, apiKey, analysisCache>>

\* await Promise.all([extractCompanyName(A), extractCompanyName(B)]) settles
CompareReportsCompany(c, ok) ==
    /\ req[c].kind = "compare-reports" /\ req[c].pc = "company"
    /\ LET q == req[c] IN
       /\ Set(c, IF ok THEN [q EXCEPT !.pc = "pipeline"]
                 ELSE CompareReportsCatch(q, "company"))
       /\ onDisk' = IF ok THEN onDisk ELSE onDisk \ {q.fa, q.fb}
    /\ UNCHANGED <<offServer, apiKey, analysisCache>>

\* await Promise.all([generateReportSections(A), generateReportSections(B)])
\* settles; on success both entries are set before the comparison is generated
CompareReportsPipeline(c, ok) ==
    /\ req[c].kind = "compare-reports" /\ req[c].pc = "pipeline"
    /\ LET q == req[c] IN
       /\ Set(c, IF ok
                 THEN [cacheSet(cacheSet(q, q.fa), q.fb)
                          EXCEPT !.pc = "comparison"]
                 ELSE CompareReportsCatch(q, "pipeline"))
       /\ analysisCache' = IF ok THEN analysisCache \cup {q.fa, q.fb}
                           ELSE analysisCache
       /\ onDisk' = IF ok THEN onDisk ELSE onDisk \ {q.fa, q.fb}
    /\ UNCHANGED <<offServer, apiKey>>

\* await generateComparisonSections(...) settles
CompareReportsComparison(c, ok) ==
    /\ req[c].kind = "compare-reports" /\ req[c].pc = "comparison"
    /\ LET q == req[c] IN
       /\ Set(c, IF ok THEN CompareReportsFinally(sendError(q, 200))
                 ELSE CompareReportsCatch(q, "comparison"))
       /\ onDisk' = onDisk \ {q.fa, q.fb}
    /\ UNCHANGED <<offServer, apiKey, analysisCache>>

-----------------------------------------------------------------------------
(* POST /api/compare-reports-stream *)

CompareReportsStreamFinally(q) ==
    Returned(unlink(unlink(resEnd(q), q.fa), q.fb))

CompareReportsStreamCatch(q, where) ==
    CompareReportsStreamFinally(Failed(sendSSE(q, "error"), where))

CompareReportsStreamEmpty(q) ==
    CompareReportsStreamFinally(resEnd(Failed(sendSSE(q, "error"), "empty")))

CompareReportsStreamComplete(q) ==
    CompareReportsStreamFinally(sendSSE(q, "complete"))

CompareReportsStream(c, fa, fb) ==
    /\ req[c].pc = "idle" /\ "compare-reports-stream" \in KindsOf(c)
    /\ LET q == Arrive(c, "compare-reports-stream", fa, fb) IN
       Set(c, IF fa = NoFile \/ fb = NoFile \/ ~apiKey
              THEN Returned(sendError(q, 400))
              ELSE IF fa \notin onDisk \/ fb \notin onDisk
                   THEN Returned(sendError(q, 404))
              ELSE [sendSSE(setupSSE(q), "progress")
                        EXCEPT !.pc = "processing"])
    /\ UNCHANGED <<offServer, apiKey, onDisk, analysisCache>>

CompareReportsStreamProcessed(c, outcome) ==
    /\ req[c].kind = "compare-reports-stream" /\ req[c].pc = "processing"
    /\ LET q == req[c] IN
       /\ Set(c, CASE outcome = "throw" ->
                        CompareReportsStreamCatch(q, "processing")
                   [] outcome = "empty" -> CompareReportsStreamEmpty(q)
                   [] OTHER ->
                        [sendSSE(q, "progress") EXCEPT !.pc = "company"])
       /\ onDisk' = IF outcome = "text" THEN onDisk
                     ELSE onDisk \ {q.fa, q.fb}
    /\ UNCHANGED <<offServer, apiKey, analysisCache>>

CompareReportsStreamCompany(c, ok) ==
    /\ req[c].kind = "compare-reports-stream" /\ req[c].pc = "company"
    /\ LET q == req[c] IN
       /\ Set(c, IF ok THEN [sendSSE(q, "progress") EXCEPT !.pc = "pipeline"]
                 ELSE CompareReportsStreamCatch(q, "company"))
       /\ onDisk' = IF ok THEN onDisk ELSE onDisk \ {q.fa, q.fb}
    /\ UNCHANGED <<offServer, apiKey, analysisCache>>

\* an orchestrator run of the comparison calls its onEvent callback
CompareReportsStreamEvent(c) ==
    /\ req[c].kind = "compare-reports-stream"
    /\ req[c].pc \in {"pipeline", "pipelineB", "comparison"}
    /\ req[c].emitted < MaxStreamEvents
    /\ Set(c, [sendSSE(req[c], "section") EXCEPT !.emitted = @ + 1])
    /\ UNCHANGED <<offServer, apiKey, onDisk, analysisCache>>

\* await generateReportSectionsStreaming(docA ...) settles
CompareReportsStreamPipelineA(c, ok) ==
    /\ req[c].kind = "compare-reports-stream" /\ req[c].pc = "pipeline"
    /\ LET q == req[c] IN
       /\ Set(c, IF ok
                 THEN [sendSSE(q, "progress")
                          EXCEPT !.pc = "pipelineB", !.emitted = 0]
                 ELSE CompareReportsStreamCatch(q, "pipeline"))
       /\ onDisk' = IF ok THEN onDisk ELSE onDisk \ {q.fa, q.fb}
    /\ UNCHANGED <<offServer, apiKey, analysisCache>>

\* await generateReportSectionsStreaming(docB ...) settles; on success both
\* entries are set before the comparison is generated
CompareReportsStreamPipelineB(c, ok) ==
    /\ req[c].kind = "compare-reports-stream" /\ req[c].pc = "pipelineB"
    /\ LET q == req[c] IN
       /\ Set(c, IF ok
                 THEN [sendSSE(cacheSet(cacheSet(q, q.fa), q.fb), "progress")
                          EXCEPT !.pc = "comparison", !.emitted = 0]
                 ELSE CompareReportsStreamCatch(q, "pipelineB"))
       /\ analysisCache' = IF ok THEN analysisCache \cup {q.fa, q.fb}
                           ELSE analysisCache
       /\ onDisk' = IF ok THEN onDisk ELSE onDisk \ {q.fa, q.fb}
    /\ UNCHANGED <<offServer, apiKey>>

\* await generateComparisonSections(...) settles
CompareReportsStreamComparison(c, ok) ==
    /\ req[c].kind = "compare-reports-stream" /\ req[c].pc = "comparison"
    /\ LET q == req[c] IN
       /\ Set(c, IF ok THEN CompareReportsStreamComplete(q)
                 ELSE CompareReportsStreamCatch(q, "comparison"))
       /\ onDisk' = onDisk \ {q.fa, q.fb}
    /\ UNCHANGED <<offServer, apiKey, analysisCache>>

ServerNext ==
    \/ \E f \in Files : Upload(f)
    \/ \E c \in Conns : ClientDisconnect(c)
    \/ \E c \in Conns : Reset(c)
    \/ \E c \in Conns, f \in FileArgs, cg \in BOOLEAN : GenerateReport(c, f, cg)
    \/ \E c \in Conns, o \in Extraction : GenerateReportProcessed(c, o)
    \/ \E c \in Conns, ok \in BOOLEAN : GenerateReportCompany(c, ok)
    \/ \E c \in Conns, ok \in BOOLEAN : GenerateReportPipeline(c, ok)
    \/ \E c \in Conns, f \in FileArgs, cg \in BOOLEAN :
            GenerateReportStream(c, f, cg)
    \/ \E c \in Conns, o \in Extraction : GenerateReportStreamProcessed(c, o)
    \/ \E c \in Conns, ok \in BOOLEAN : GenerateReportStreamCompany(c, ok)
    \/ \E c \in Conns : GenerateReportStreamEvent(c)
    \/ \E c \in Conns, ok \in BOOLEAN : GenerateReportStreamPipeline(c, ok)
    \/ \E c \in Conns, f \in FileArgs, pg \in BOOLEAN : AskQuestion(c, f, pg)
    \/ \E c \in Conns, ok \in BOOLEAN : AskQuestionAnswered(c, ok)
    \/ \E c \in Conns, f \in FileArgs, pg \in BOOLEAN :
            AskQuestionStream(c, f, pg)
    \/ \E c \in Conns : AskQuestionStreamChunk(c)
    \/ \E c \in Conns, ok \in BOOLEAN : AskQuestionStreamAnswered(c, ok)
    \/ \E c \in Conns, fa \in FileArgs, fb \in FileArgs :
            CompareReports(c, fa, fb)
    \/ \E c \in Conns, o \in Extraction : CompareReportsProcessed(c, o)
    \/ \E c \in Conns, ok \in BOOLEAN : CompareReportsCompany(c, ok)
    \/ \E c \in Conns, ok \in BOOLEAN : CompareReportsPipeline(c, ok)
    \/ \E c \in Conns, ok \in BOOLEAN : CompareReportsComparison(c, ok)
    \/ \E c \in Conns, fa \in FileArgs, fb \in FileArgs :
            CompareReportsStream(c, fa, fb)
    \/ \E c \in Conns, o \in Extraction : CompareReportsStreamProcessed(c, o)
    \/ \E c \in Conns, ok \in BOOLEAN : CompareReportsStreamCompany(c, ok)
    \/ \E c \in Conns : CompareReportsStreamEvent(c)
    \/ \E c \in Conns, ok \in BOOLEAN : CompareReportsStreamPipelineA(c, ok)
    \/ \E c \in Conns, ok \in BOOLEAN : CompareReportsStreamPipelineB(c, ok)
    \/ \E c \in Conns, ok \in BOOLEAN : CompareReportsStreamComparison(c, ok)

SpecServer == ServerInit /\ [][ServerNext]_vars

-----------------------------------------------------------------------------
(* Properties of the Express server *)

CompareKinds == {"compare-reports", "compare-reports-stream"}

\* the request was answered with an error response or an error event
Errored(q) == q.status \in {400, 404, 500} \/ q.last = "error"

LastEvents(q) ==
    IF q.kind = "ask-question-stream" THEN {"done", "error"}
    ELSE {"complete", "error"}

C2_ErrorLeavesCacheUntouched ==
    \A c \in Conns :
        (req[c].pc = "done" /\ Errored(req[c])) => req[c].wrote = {}

\* C2 as amended: a request writes cache entries only once the report
\* pipelines of all its documents have returned successfully, and a request
\* that ends in an error has written nothing unless it is a comparison whose
\* comparison step failed after both document pipelines succeeded.
C2_CacheAfterPipelines ==
    \A c \in Conns :
        LET q == req[c] IN
        /\ q.wrote \subseteq analysisCache
        /\ q.wrote # {} =>
              /\ q.wrote = {q.fa, q.fb} \ {NoFile}
              /\ q.pc \in {"comparison", "done"}
              /\ q.failedAt \in {"none", "comparison"}
        /\ (q.pc = "done" /\ Errored(q) /\ q.wrote # {}) =>
              (q.kind \in CompareKinds /\ q.failedAt = "comparison")
        /\ (q.pc = "done" /\ q.kind \in ReportKinds /\ ~Errored(q)) =>
              q.wrote # {}

\* a report request failed in its pipeline while an earlier entry for the
\* same filename is in the cache, and wrote nothing
C2_Witness ==
    \E c \in Conns :
        /\ req[c].pc = "done" /\ req[c].failedAt = "pipeline"
        /\ req[c].fa \in analysisCache /\ req[c].wrote = {}

\* C3: a report or comparison request that names an uploaded file present on
\* disk has issued the deletion of that file by the time it ends.
C3_UploadDeleted ==
    \A c \in Conns :
        (req[c].kind \in ReportKinds /\ req[c].pc = "done") =>
            req[c].present \subseteq req[c].unlinked

\* C4 as stated: a Q&A request for a filename without a cache entry is
\* answered 404 and runs no query processing.
C4_MissIsNotFound ==
    \A c \in Conns :
        (req[c].kind \in AskKinds /\ req[c].pc = "done" /\ req[c].miss) =>
            (req[c].status = 404 /\ ~req[c].ranQA)

\* C4 as amended: a Q&A request that carries filename, question and company
\* name (with the API key configured) for a filename without a cache entry is
\* answered 404; one that lacks a parameter is answered 400; in both cases no
\* query processing, retrieval or LLM call runs, no stream is opened and the
\* answer is never the generic 500.
C4_ValidMissIsNotFound ==
    \A c \in Conns :
        LET q == req[c] IN
        (q.kind \in AskKinds /\ q.miss) =>
            /\ q.pc = "done"
            /\ ~q.ranQA /\ ~q.sse /\ q.terminals = 0
            /\ q.status = (IF q.paramsGiven /\ apiKey THEN 404 ELSE 400)

\* a Q&A request meets a missing entry while the report for the same file
\* is still being generated
C4_Witness ==
    \E c \in Conns, d \in Conns :
        /\ req[c].kind \in AskKinds /\ req[c].miss /\ req[c].status = 404
        /\ req[d].kind \in ReportKinds /\ req[d].pc = "pipeline"
        /\ req[d].fa = req[c].fa

\* C6: no event is written to a stream after its client has gone.
C6_NoEventAfterDisconnect ==
    \A c \in Conns : ~req[c].late

(***************************************************************************)
(* openaiChatCompletion: the completion call with its retry loop           *)
(***************************************************************************)
DefaultRetries == 3

\* what one fetch of the completion endpoint can give: a 2xx response with
\* content, with content missing (null), with a body the handler cannot read
\* (response.json() or data.choices[0] throws), a 429, another non-2xx
\* status, or a rejected fetch
Responses == {"content", "null", "unreadable", "429", "500", "network"}

\* Math.random() * 1000, in milliseconds
Jitters == {0, 500, 999}

Pow2(n) == IF n = 0 THEN 1 ELSE 2 ^ n

\* Math.pow(2, attempt) * 1000 + Math.random() * 1000
Backoff(attempt, jitter) == Pow2(attempt) * 1000 + jitter

\* response.status === 429 && attempt < retries
ShouldRetryOnLast(response, attempt, retries) ==
    response = "429" /\ attempt <= retries

ShouldRetry(response, attempt, retries) ==
    response = "429" /\ attempt < retries

\* the for loop's head: attempt <= retries, then the fetch is issued
LoopHead(k) ==
    IF k.attempt <= k.retries
    THEN [k EXCEPT !.pc = "fetch", !.requests = @ + 1]
    ELSE [k EXCEPT !.pc = "returned", !.result = "undefined"]

RetryInit ==
    /\ ServerIdle
    /\ call = IdleCall
    /\ rr = IdleRerank
    /\ run = IdleRun
    /\ ret = IdleRetrieval
    /\ sec = IdleSection
    /\ fu = IdleFusion
    /\ ck = IdleChunking
    /\ lex = IdleLexical
    /\ qp = IdleQuery
    /\ cls = IdleClassify
    /\ ss = IdleSession
    /\ tb = IdleTables
    /\ cl = IdleClient

\* a caller invokes openaiChatCompletion(apiKey, {...}, retries)
ChatCompletion(retries) ==
    /\ call.pc = "idle"
    /\ call' = LoopHead([IdleCall EXCEPT !.retries = retries])
    /\ UNCHANGED offRetry

\* await fetch(...) settles
ChatResponse(response, jitter) ==
    /\ call.pc = "fetch"
    /\ LET k == [call EXCEPT !.responses = Append(@, response)] IN
       call' =
         CASE response \in {"content", "null"} ->
                [k EXCEPT !.pc = "returned", !.result = response]
           [] response \in {"unreadable", "network"} ->
                [k EXCEPT !.pc = "thrown", !.result = response]
           [] ShouldRetry(response, k.attempt, k.retries) ->
                [k EXCEPT !.pc = "sleep",
                          !.delays = Append(@, Backoff(k.attempt, jitter))]
           [] OTHER -> [k EXCEPT !.pc = "thrown", !.result = response]
    /\ UNCHANGED offRetry

\* await sleep(delay) is over: continue, attempt++
ChatWake ==
    /\ call.pc = "sleep"
    /\ call' = LoopHead([call EXCEPT !.attempt = @ + 1])
    /\ UNCHANGED offRetry

RetryNext ==
    \/ \E r \in 0..MaxRetries : ChatCompletion(r)
    \/ \E resp \in Responses, j \in Jitters : ChatResponse(resp, j)
    \/ ChatWake

SpecRetry == RetryInit /\ [][RetryNext]_vars

Settled(k) == k.pc \in {"returned", "thrown"}

\* C5: a call retries only on a 429 and only while attempts remain, waits
\* 2^attempt seconds plus less than a second of jitter before the next
\* request, throws at once on any other non-2xx response and on a 429 at the
\* last attempt, issues at most retries+1 requests, and ends by returning the
\* content (or null) or by throwing, never by falling out of the loop.
C5_BoundedRetry ==
    /\ call.requests <= call.retries + 1
    /\ call.result # "undefined"
    /\ Len(call.delays) = call.requests - (IF call.pc = "sleep" THEN 0 ELSE 1)
          \/ call.pc = "idle"
    /\ \A i \in 1..Len(call.delays) :
          /\ call.responses[i] = "429"
          /\ i - 1 < call.retries
          /\ call.delays[i] >= Pow2(i - 1) * 1000
          /\ call.delays[i] < Pow2(i - 1) * 1000 + 1000
    /\ (call.pc = "fetch") => Len(call.responses) = call.requests - 1
    /\ Settled(call) =>
          LET last == call.responses[Len(call.responses)] IN
          /\ Len(call.responses) = call.requests
          /\ Len(call.delays) = call.requests - 1
          /\ call.pc = "returned" <=> last \in {"content", "null"}
          /\ call.pc = "returned" => call.result = last
          /\ (last = "429") => call.attempt = call.retries

\* the default budget used up: four requests, all answered 429, then a throw
C5_Witness ==
    /\ call.pc = "thrown" /\ call.retries = DefaultRetries
    /\ call.requests = DefaultRetries + 1
    /\ call.responses[call.requests] = "429"
    /\ Len(call.delays) = DefaultRetries

(***************************************************************************)
(* rerankChunks: LLM reranking with its fallback                           *)
(***************************************************************************)
RerankTopK == 6

\* chunks[idx] for an idx that is no index of the array
Undefined == -1

Min(a, b) == IF a < b THEN a ELSE b

\* Array.prototype.slice(0, k), k >= 0
Slice(s, k) == SubSeq(s, 1, Min(k, Len(s)))

Range(s) == {s[i] : i \in 1..Len(s)}

SeqsUpTo(S, n) == UNION {[1..m -> S] : m \in 0..n}

\* the input array: chunk i of the caller's list, i = 0..n-1
ChunkList(n) == [i \in 1..n |-> i - 1]

\* what JSON.parse can put into the array: an integer (in range or not), a
\* number with a fractional part (v + 0.5), a string that is no number
Entries ==
    [t : {"int"}, v : (0 - 1)..MaxChunks] \cup [t : {"frac"}, v : {0}]
        \cup [t : {"str"}, v : {0}]

\* (idx) => idx >= 0 && idx < chunks.length; comparisons with NaN are false
InRange(e, n) ==
    CASE e.t = "int" -> e.v >= 0 /\ e.v < n
      [] e.t = "frac" -> e.v + 1 <= n
      [] OTHER -> FALSE

\* (idx) => chunks[idx]
ChunkAt(e) == IF e.t = "int" THEN e.v ELSE Undefined

RECURSIVE AppendMissing(_, _)
\* for (const chunk of chunks) if (!reranked.includes(chunk)) reranked.push(chunk)
AppendMissing(reranked, chunks) ==
    IF chunks = <<>> THEN reranked
    ELSE AppendMissing(IF Head(chunks) \in Range(reranked) THEN reranked
                       ELSE Append(reranked, Head(chunks)),
                       Tail(chunks))

\* the Array.isArray(ranking) branch
Reranked(ranking, n, k) ==
    LET kept == SelectSeq(ranking, LAMBDA e : InRange(e, n))
        picked == [i \in 1..Len(kept) |-> ChunkAt(kept[i])]
    IN Slice(AppendMissing(picked, ChunkList(n)), k)

\* const k = topK || config.reranking.topK
RerankK(topK) == IF topK # 0 THEN topK ELSE RerankTopK

RerankOutcomes == {"throw", "empty", "notJSON", "notArray", "array"}

RerankInit ==
    /\ ServerIdle
    /\ call = IdleCall
    /\ rr = IdleRerank
    /\ run = IdleRun
    /\ ret = IdleRetrieval
    /\ sec = IdleSection
    /\ fu = IdleFusion
    /\ ck = IdleChunking
    /\ lex = IdleLexical
    /\ qp = IdleQuery
    /\ cls = IdleClassify
    /\ ss = IdleSession
    /\ tb = IdleTables
    /\ cl = IdleClient

\* rerankChunks(chunks, query, apiKey, topK) up to the await of the LLM call;
\* topK = 0 stands for a missing (falsy) topK
RerankChunks(n, topK, enabled) ==
    /\ rr.pc = "idle"
    /\ LET r == [IdleRerank EXCEPT !.n = n, !.topK = topK,
                                   !.enabled = enabled] IN
       rr' = IF ~enabled \/ n <= 2
             THEN [r EXCEPT !.pc = "returned",
                            !.result = Slice(ChunkList(n),
                                             IF topK # 0 THEN topK ELSE n)]
             ELSE [r EXCEPT !.pc = "awaiting"]
    /\ UNCHANGED offRerank

\* the LLM call settles: it rejects, or gives no content, text that is not
\* JSON, JSON that is no array, or an array
RerankResponse(outcome, ranking) ==
    /\ rr.pc = "awaiting"
    /\ outcome = "array" \/ ranking = <<>>
    /\ LET k == RerankK(rr.topK) IN
       rr' = [rr EXCEPT !.pc = "returned", !.outcome = outcome,
                        !.ranking = ranking,
                        !.result = IF outcome = "array"
                                   THEN Reranked(ranking, rr.n, k)
                                   ELSE Slice(ChunkList(rr.n), k)]
    /\ UNCHANGED offRerank

\* the caller's next call
RerankAgain ==
    /\ rr.pc = "returned"
    /\ rr' = IdleRerank
    /\ UNCHANGED offRerank

RerankNext ==
    \/ \E n \in 0..MaxChunks, k \in 0..MaxTopK, e \in BOOLEAN :
          RerankChunks(n, k, e)
    \/ /\ rr.pc = "awaiting"
       /\ \E o \in RerankOutcomes, r \in SeqsUpTo(Entries, MaxRanking) :
             RerankResponse(o, r)
    \/ RerankAgain

SpecRerank == RerankInit /\ [][RerankNext]_vars

\* the array is a list of valid integer indices of the chunk array
ValidIndexList(ranking, n) ==
    \A i \in 1..Len(ranking) :
        ranking[i].t = "int" /\ ranking[i].v >= 0 /\ ranking[i].v < n

RerankFailed(r) ==
    \/ r.outcome \in {"throw", "empty", "notJSON", "notArray"}
    \/ r.outcome = "array" /\ ~ValidIndexList(r.ranking, r.n)

\* C7: whenever the reranking call fails (it rejects, gives no content,
\* text that is not JSON, JSON that is no array, or an array that is not a
\* list of valid integer indices), rerankChunks returns the first topK input
\* chunks in their original order.
C7_FallbackKeepsOrder ==
    (rr.pc = "returned" /\ RerankFailed(rr)) =>
        rr.result = Slice(ChunkList(rr.n), RerankK(rr.topK))

(***************************************************************************)
(* generateReportSections: the report pipeline of one document             *)
(***************************************************************************)
MaxChunkSize == 1500
MinChunkSize == 100
ChunkOverlap == 200
NumSections == 4

MinRows == 3

\* lengths of the paragraphs of the extracted text; 0 is a paragraph that
\* holds only a page marker, a page number or white space
ParagraphLengths == {0, 40, 700, 1400}

\* cleanText: page markers and page numbers removed, blank runs collapsed
cleanText(raw) == SelectSeq(raw, LAMBDA len : len > 0)

\* A text is a sequence of lines.  A line has a kind (blank, a table row
\* as isTableLine tells it, a section header as detectSections tells it, or
\* prose), a length in characters and stop, which says that it ends with
\* '.', '!' or '?'.
Blank == [kind |-> "blank", len |-> 0, stop |-> FALSE]

Prose(len) == [kind |-> "prose", len |-> len, stop |-> TRUE]

LineShapes ==
    {Blank,
     [kind |-> "row", len |-> 60, stop |-> FALSE],
     [kind |-> "header", len |-> 20, stop |-> FALSE],
     Prose(40), Prose(1400)}

RECURSIVE TextOf(_)
\* the cleaned text whose paragraphs are single lines of the given lengths
TextOf(paras) ==
    IF paras = <<>> THEN <<>>
    ELSE IF Len(paras) = 1 THEN <<Prose(Head(paras))>>
    ELSE <<Prose(Head(paras)), Blank>> \o TextOf(Tail(paras))

isTableLine(line) == line.kind = "row"

RECURSIVE TableScan(_, _, _, _, _)
\* detectTables, the loop over the lines and the flush of the trailing run:
\* runStart is 0 outside a run
TableScan(lines, i, runStart, consecutiveNonTable, tables) ==
    IF i > Len(lines)
    THEN IF runStart # 0
            /\ (Len(lines) - consecutiveNonTable) - runStart + 1 >= MinRows
         THEN Append(tables, [lineStart |-> runStart,
                              lineEnd |-> Len(lines) - consecutiveNonTable])
         ELSE tables
    ELSE IF isTableLine(lines[i])
         THEN TableScan(lines, i + 1, IF runStart = 0 THEN i ELSE runStart,
                        0, tables)
    ELSE IF runStart = 0
         THEN TableScan(lines, i + 1, 0, consecutiveNonTable, tables)
    ELSE IF consecutiveNonTable + 1 > 1
         THEN LET runEnd == i - (consecutiveNonTable + 1)
              IN TableScan(lines, i + 1, 0, 0,
                           IF runEnd - runStart + 1 >= MinRows
                           THEN Append(tables, [lineStart |-> runStart,
                                                lineEnd |-> runEnd])
                           ELSE tables)
    ELSE TableScan(lines, i + 1, runStart, consecutiveNonTable + 1, tables)

detectTables(lines) == TableScan(lines, 1, 0, 0, <<>>)

\* detectSections: the numbers of the lines that start a section
detectSections(lines) ==
    {i \in 1..Len(lines) : lines[i].kind = "header"}

\* buildSectionRegions: the regions as ranges of lines, in text order; a
\* region that holds only white space is filtered out
buildSectionRegions(lines, sections) ==
    LET starts == IF sections = {} THEN {1} ELSE sections \cup {1}
        end(a) == IF \E h \in starts : h > a
                  THEN (CHOOSE h \in starts :
                            h > a /\ \A g \in starts : g > a => h <= g) - 1
                  ELSE Len(lines)
        kept == {a \in starts :
                    \E i \in a..end(a) : lines[i].kind # "blank"}
        nth(n) == CHOOSE a \in kept :
                      Cardinality({c \in kept : c < a}) = n - 1
    IN [n \in 1..Cardinality(kept) |->
            [first |-> nth(n), last |-> end(nth(n))]]

\* text.split(/\n\s*\n/).filter(non-blank): the paragraphs of a region as
\* ranges of lines, in text order
Paragraphs(lines, region) ==
    LET inside == region.first..region.last
        full(i) == i \in inside /\ lines[i].kind # "blank"
        heads == {a \in inside : full(a) /\ ~full(a - 1)}
        end(a) == CHOOSE b \in a..region.last :
                      /\ \A i \in a..b : full(i)
                      /\ ~full(b + 1)
        nth(n) == CHOOSE a \in heads :
                      Cardinality({c \in heads : c < a}) = n - 1
    IN [n \in 1..Cardinality(heads) |->
            [first |-> nth(n), last |-> end(nth(n))]]

\* A string built by the chunker is a sequence of units: a whole line of
\* the text (line is its number) or a piece cut by slice(-overlap) (line is
\* 0); gap is the white space that follows the unit in the string.
TrimmedPara(lines, para) ==
    [i \in 1..(para.last - para.first + 1) |->
        LET n == para.first + i - 1
        IN [line |-> n, len |-> lines[n].len, stop |-> lines[n].stop,
            gap |-> IF n < para.last THEN 1 ELSE 0]]

RECURSIVE Length(_)
\* string.length
Length(units) ==
    IF units = <<>> THEN 0
    ELSE Head(units).len + Head(units).gap + Length(Tail(units))

\* string.trim()
Trim(units) ==
    IF units = <<>> THEN units ELSE [units EXCEPT ![Len(units)].gap = 0]

\* a + '\n\n' + b
JoinParagraphs(a, b) == [a EXCEPT ![Len(a)].gap = 2] \o b

\* string.slice(-overlap)
SliceEnd(units, overlap) ==
    IF units = <<>> THEN units
    ELSE <<[line |-> 0, len |-> Min(overlap, Length(units)),
            stop |-> units[Len(units)].stop, gap |-> 0]>>

\* text.match(/[^.!?]+[.!?]+\s*/g) || [text]: every match runs up to a
\* unit that stops and takes the white space after it; what follows the
\* last match is in no match
Sentences(units) ==
    LET stops == {i \in 1..Len(units) : units[i].stop}
        start(i) == IF \E h \in stops : h < i
                    THEN 1 + CHOOSE h \in stops :
                                 h < i /\ \A g \in stops : g < i => g <= h
                    ELSE 1
        nth(n) == CHOOSE i \in stops :
                      Cardinality({h \in stops : h < i}) = n - 1
    IN IF stops = {} THEN <<units>>
       ELSE [n \in 1..Cardinality(stops) |->
                SubSeq(units, start(nth(n)), nth(n))]

RECURSIVE SplitLoop(_, _, _, _, _)
\* splitLongText, the loop over the sentences and the final push
SplitLoop(sentences, chunks, current, maxSize, overlap) ==
    IF sentences = <<>>
    THEN IF Length(Trim(current)) > 0 THEN Append(chunks, Trim(current))
         ELSE chunks
    ELSE LET sentence == Head(sentences) IN
         IF Length(current) + Length(sentence) > maxSize
            /\ Length(current) > 0
         THEN SplitLoop(Tail(sentences), Append(chunks, Trim(current)),
                        IF overlap > 0
                        THEN SliceEnd(current, overlap) \o sentence
                        ELSE sentence,
                        maxSize, overlap)
         ELSE SplitLoop(Tail(sentences), chunks, current \o sentence,
                        maxSize, overlap)

splitLongText(units, maxSize, overlap) ==
    SplitLoop(Sentences(units), <<>>, <<>>, maxSize, overlap)

\* isWithinTable: table.text.includes(paragraph.slice(0, 100)), the lines
\* of a text being pairwise different: every line that the first 100
\* characters of the paragraph reach lies in the table
isWithinTable(lines, para, tables) ==
    LET upTo(n) == Length(TrimmedPara(lines, [first |-> para.first,
                                               last |-> n]))
        reached == {n \in para.first..para.last :
                       n = para.first \/ upTo(n - 1) + 1 < 100}
    IN \E t \in 1..Len(tables) :
           \A n \in reached :
               tables[t].lineStart <= n /\ n <= tables[t].lineEnd

\* a chunk of a region: its text, and whether it was pushed as a table
Chunk(units, table) == [units |-> units, table |-> table]

\* lines 371-374: flush current chunk first
FlushBeforeTable(chunks, currentChunk, minSize) ==
    IF Length(Trim(currentChunk)) >= minSize
    THEN Append(chunks, Chunk(Trim(currentChunk), FALSE))
    ELSE chunks

\* lines 399-404: a currentChunk over 1.5 * maxSize is split further
SplitFurther(end, maxSize, overlap) ==
    LET chunks == end[1]
        currentChunk == end[2]
    IN IF 2 * Length(currentChunk) > 3 * maxSize
       THEN LET subChunks == splitLongText(currentChunk, maxSize, overlap)
                n == Len(subChunks)
            IN <<chunks \o [i \in 1..(n - 1) |-> Chunk(subChunks[i], FALSE)],
                 IF n > 0 THEN subChunks[n] ELSE <<>>>>
       ELSE end

RECURSIVE ChunkLoop(_, _, _, _, _, _, _, _)
\* chunkRegion, the loop over the paragraphs: the chunks pushed so far and
\* currentChunk
ChunkLoop(lines, paras, chunks, currentChunk, maxSize, minSize, overlap, tables) ==
    IF paras = <<>> THEN <<chunks, currentChunk>>
    ELSE LET trimmedPara == TrimmedPara(lines, Head(paras))
             rest == Tail(paras)
         IN IF isWithinTable(lines, Head(paras), tables)
            THEN ChunkLoop(lines, rest,
                     Append(FlushBeforeTable(chunks, currentChunk, minSize),
                            Chunk(trimmedPara, TRUE)),
                     <<>>, maxSize, minSize, overlap, tables)
            ELSE LET end ==
                     IF Length(currentChunk) > 0
                        /\ Length(currentChunk) + Length(trimmedPara) + 2
                               > maxSize
                     THEN <<Append(chunks, Chunk(Trim(currentChunk), FALSE)),
                            IF overlap > 0 /\ Length(currentChunk) > overlap
                            THEN JoinParagraphs(
                                     SliceEnd(currentChunk, overlap),
                                     trimmedPara)
                            ELSE trimmedPara>>
                     ELSE <<chunks,
                            IF Length(currentChunk) > 0
                            THEN JoinParagraphs(currentChunk, trimmedPara)
                            ELSE trimmedPara>>
                     split == SplitFurther(end, maxSize, overlap)
                 IN ChunkLoop(lines, rest, split[1], split[2],
                              maxSize, minSize, overlap, tables)

\* chunkRegion: the loop, then the flush of the remainder
chunkRegion(lines, region, maxSize, minSize, overlap, tables) ==
    LET end == ChunkLoop(lines, Paragraphs(lines, region), <<>>, <<>>,
                         maxSize, minSize, overlap, tables)
        chunks == end[1]
        tail == Trim(end[2])
    IN IF Length(tail) >= minSize THEN Append(chunks, Chunk(tail, FALSE))
       ELSE IF Length(tail) > 0 /\ chunks # <<>>
            THEN [chunks EXCEPT ![Len(chunks)].units =
                                    JoinParagraphs(@, tail)]
       ELSE IF Length(tail) > 0 THEN Append(chunks, Chunk(tail, FALSE))
       ELSE chunks

\* an index that starts again in every region
RegionIndex(globalIndex, j) == j - 1

\* the value of globalIndex at the j-th chunk of a region
IndexOf(globalIndex, j) == globalIndex + j - 1

RECURSIVE LineOffset(_, _)
\* the offset of the first character of line n in the text
LineOffset(lines, n) ==
    IF n = 1 THEN 0
    ELSE LineOffset(lines, n - 1) + lines[n - 1].len + 1

\* text.length
TotalChars(lines) == LineOffset(lines, Len(lines)) + lines[Len(lines)].len

\* +(num / den).toFixed(3), in thousandths
ToFixed3(num, den) == (2000 * num + den) \div (2 * den)

\* lines 280-282, position = num / den: the thresholds 0.08 and 0.92
DocRegion(num, den) ==
    IF 100 * num < 8 * den THEN "front_matter"
    ELSE IF 100 * num > 92 * den THEN "back_matter"
    ELSE "body"

\* line 278: region.startOffset, the same for every chunk of the region
StartOffset(lines, region, chunk) == LineOffset(lines, region.first)

RECURSIVE ChunkRegions(_, _, _, _, _)
\* splitTextIntoSemanticChunks, the loop over the regions: n is the number
\* of the region, globalIndex the counter
ChunkRegions(lines, regions, n, globalIndex, tables) ==
    IF n > Len(regions) THEN <<>>
    ELSE LET regionChunks ==
                 chunkRegion(lines, regions[n], MaxChunkSize, MinChunkSize,
                             ChunkOverlap, tables)
             documents ==
                 [j \in 1..Len(regionChunks) |->
                     [id |-> "chunk_" \o ToString(IndexOf(globalIndex, j)),
                      index |-> IndexOf(globalIndex, j),
                      region |-> n,
                      position |->
                          ToFixed3(StartOffset(lines, regions[n],
                                               regionChunks[j]),
                                   TotalChars(lines)),
                      docRegion |->
                          DocRegion(StartOffset(lines, regions[n],
                                                regionChunks[j]),
                                    TotalChars(lines)),
                      units |-> regionChunks[j].units,
                      table |-> regionChunks[j].table]]
         IN documents \o ChunkRegions(lines, regions, n + 1,
                                      globalIndex + Len(regionChunks), tables)

\* splitTextIntoSemanticChunks over a cleaned text
splitTextIntoSemanticChunks(lines) ==
    ChunkRegions(lines, buildSectionRegions(lines, detectSections(lines)),
                 1, 0, detectTables(lines))

ReportInit ==
    /\ ServerIdle
    /\ call = IdleCall
    /\ rr = IdleRerank
    /\ run = IdleRun
    /\ ret = IdleRetrieval
    /\ sec = IdleSection
    /\ fu = IdleFusion
    /\ ck = IdleChunking
    /\ lex = IdleLexical
    /\ qp = IdleQuery
    /\ cls = IdleClassify
    /\ ss = IdleSession
    /\ tb = IdleTables
    /\ cl = IdleClient

\* SECTION_TYPES
SECTION_TYPES ==
    <<"overview", "financialHighlights", "keyRisks", "managementCommentary">>

\* what the completion call of generateSectionContent resolves to: text,
\* the empty string, or null (no content in the first choice)
Contents == {"## Analysis", "", "null"}

Fallback == "*Analysis not available for this section.*"

\* return content || '*Analysis not available for this section.*'
generateSectionContent(content) ==
    IF content \in {"", "null"} THEN Fallback ELSE content

\* a step of the run, as the log records it
Step(name, section) == [name |-> name, section |-> section]

\* a loop body that calls multiQueryRetrieval before it expands the queries
RetrieveThenExpand(steps, n) ==
    steps \o <<Step("retrieve", n), Step("expand", n)>>

\* the steps that open section n: expandFinancialTerms over the base
\* queries, then the call of multiQueryRetrieval
OpenSection(steps, n) ==
    steps \o <<Step("expand", n), Step("retrieve", n)>>

\* generateReportSections(extractedText, ...): cleanText, await
\* classifyDocument; the server passes on only a non-empty extractedText
GenerateReportSections(raw) ==
    /\ run.pc = "idle"
    /\ raw # <<>>
    /\ run' = [IdleRun EXCEPT !.pc = "classify", !.raw = raw,
                              !.cleaned = cleanText(raw),
                              !.steps = <<Step("clean", 0),
                                          Step("classify", 0)>>]
    /\ UNCHANGED offReport

\* classifyDocument resolved (it never rejects); chunking; await
\* createSearchIndices
ReportChunked ==
    /\ run.pc = "classify"
    /\ run' = [run EXCEPT !.pc = "index",
                          !.chunks = splitTextIntoSemanticChunks(TextOf(run.cleaned)),
                          !.steps = @ \o <<Step("chunk", 0), Step("index", 0)>>]
    /\ UNCHANGED offReport

ReportThrow(where) == [run EXCEPT !.pc = "thrown", !.failedAt = where]

\* createSearchIndices settles; the section loop starts with its first
\* multiQueryRetrieval
ReportIndexed(ok) ==
    /\ run.pc = "index"
    /\ run' = IF ok THEN [run EXCEPT !.pc = "retrieve", !.indexBuilt = TRUE,
                                     !.section = 1,
                                     !.steps = OpenSection(@, 1)]
              ELSE ReportThrow("index")
    /\ UNCHANGED offReport

\* the retrieval of one section (with its unfiltered retry) settles with n
\* chunks, none from an empty index and otherwise at least one; rerankChunks
\* is called
ReportRetrieved(ok, n) ==
    /\ run.pc = "retrieve"
    /\ n <= Len(run.chunks)
    /\ (n = 0) <=> (run.chunks = <<>>)
    /\ run' = IF ok THEN [run EXCEPT !.pc = "rerank", !.retrieved = n,
                                     !.steps = Append(@, Step("rerank",
                                                              run.section))]
              ELSE ReportThrow("retrieve")
    /\ UNCHANGED offReport

\* rerankChunks resolves (it never rejects) with at most
\* config.reranking.topK excerpts; generateSectionContent is called
ReportReranked ==
    /\ run.pc = "rerank"
    /\ run' = [run EXCEPT !.pc = "generate",
                          !.excerpts = Append(@, Min(run.retrieved, RerankTopK)),
                          !.steps = Append(@, Step("generate", run.section))]
    /\ UNCHANGED offReport

\* generateSectionContent settles: sections[sectionType] is assigned and
\* sleep(500) is awaited, or the rejection leaves the function
ReportGenerated(ok, content) ==
    /\ run.pc = "generate"
    /\ run' = IF ~ok THEN ReportThrow("generate")
              ELSE [run EXCEPT !.pc = "sleep", !.generated = @ + 1,
                               !.sections =
                                   Append(@, generateSectionContent(content)),
                               !.steps = Append(@, Step("sleep", run.section))]
    /\ UNCHANGED offReport

\* the timer of sleep(500) fires: the next section, or the return
ReportSlept ==
    /\ run.pc = "sleep"
    /\ run' = IF run.section < NumSections
              THEN [run EXCEPT !.pc = "retrieve", !.section = @ + 1,
                               !.steps = OpenSection(
                                   Append(@, Step("wake", run.section)),
                                   run.section + 1)]
              ELSE [run EXCEPT !.pc = "returned",
                               !.steps = Append(@, Step("wake", run.section))]
    /\ UNCHANGED offReport

\* a handler that answers 200 with the sections it holds, whatever the
\* outcome of the run
RespondWithSections(r) ==
    [status |-> 200,
     fields |-> [i \in 1..Len(r.sections) |->
                    [name |-> SECTION_TYPES[i], content |-> r.sections[i]]]]

\* POST /api/generate-report after await generateReportSections: the
\* sections are spread into the 200 response, or the catch block answers
\* 500 with the error message alone
Respond(r) ==
    IF r.pc = "returned"
    THEN [status |-> 200,
          fields |-> [i \in 1..Len(r.sections) |->
                         [name |-> SECTION_TYPES[i],
                          content |-> r.sections[i]]]]
    ELSE [status |-> 500, fields |-> <<>>]

\* the handler of the non-streaming route answers the request
ReportResponded ==
    /\ run.pc \in {"returned", "thrown"}
    /\ run.responses = <<>>
    /\ run' = [run EXCEPT !.responses = Append(@, Respond(run))]
    /\ UNCHANGED offReport

ReportNext ==
    \/ /\ run.pc = "idle"
       /\ \E raw \in SeqsUpTo(ParagraphLengths, MaxParagraphs) :
             GenerateReportSections(raw)
    \/ ReportChunked
    \/ \E ok \in BOOLEAN : ReportIndexed(ok)
    \/ \E ok \in BOOLEAN, n \in 0..MaxChunks : ReportRetrieved(ok, n)
    \/ ReportReranked
    \/ \E ok \in BOOLEAN, content \in Contents : ReportGenerated(ok, content)
    \/ ReportSlept
    \/ ReportResponded

SpecReport == ReportInit /\ [][ReportNext]_vars

\* C8: a run whose cleaning and chunking gave zero chunks builds no index,
\* generates no section and does not return a report.
C8_ZeroChunksAbort ==
    (run.pc \notin {"idle", "classify"} /\ run.chunks = <<>>) =>
        /\ ~run.indexBuilt
        /\ run.generated = 0
        /\ run.pc # "returned"

\* a report with all four sections comes back from a document whose text is
\* nothing but page markers
C8_EmptyReportReturned ==
    /\ run.pc = "returned" /\ run.raw # <<>> /\ run.chunks = <<>>
    /\ run.indexBuilt /\ run.generated = NumSections
    /\ \A i \in 1..NumSections : run.excerpts[i] = 0

\* the run failed in the generation call of a section
FailedInGeneration(r) == r.pc = "thrown" /\ r.failedAt = "generate"

\* the four section fields, each with content
CompleteFields(fields) ==
    /\ Len(fields) = NumSections
    /\ \A i \in 1..NumSections :
           /\ fields[i].name = SECTION_TYPES[i]
           /\ fields[i].content \notin {"", "null"}

\* C21: in the non-streaming report flow a failed generation call of any
\* section ends the request with a single error response: no content of an
\* earlier section is returned, no later section is retrieved or generated,
\* and no response carries only some of the four section fields; a success
\* carries all four fields, each non-empty.
C21_AllOrNothing ==
    /\ Len(run.responses) <= 1
    /\ FailedInGeneration(run) =>
           /\ run.steps[Len(run.steps)] = Step("generate", run.section)
           /\ run.generated = run.section - 1
           /\ Len(run.sections) = run.generated
    /\ \A i \in 1..Len(run.responses) :
           /\ FailedInGeneration(run) =>
                  run.responses[i] = [status |-> 500, fields |-> <<>>]
           /\ run.responses[i].fields # <<>> =>
                  CompleteFields(run.responses[i].fields)
           /\ run.pc = "returned" =>
                  /\ run.responses[i].status = 200
                  /\ CompleteFields(run.responses[i].fields)

\* the generation of the third section failed after two sections were
\* generated, and the request was answered with the error alone
C21_Witness ==
    /\ FailedInGeneration(run)
    /\ run.section = 3
    /\ Len(run.sections) = 2
    /\ run.responses = <<[status |-> 500, fields |-> <<>>]>>

RECURSIVE SectionSteps(_)
\* the steps of the sections n..NumSections, in the order of the loop body
SectionSteps(n) ==
    IF n > NumSections THEN <<>>
    ELSE <<Step("expand", n), Step("retrieve", n), Step("rerank", n),
           Step("generate", n), Step("sleep", n), Step("wake", n)>>
         \o SectionSteps(n + 1)

PipelineOrder ==
    <<Step("clean", 0), Step("classify", 0), Step("chunk", 0),
      Step("index", 0)>> \o SectionSteps(1)

IsPrefix(s, t) == Len(s) <= Len(t) /\ s = SubSeq(t, 1, Len(s))

RrfK == 60
NarrowThreshold == 3
MaxSubQueries == 3

\* the chunks of the index, by the number in their id (chunk_<n>)
Docs == 1..NumChunks

SectionNames == {"risk_factors", "mda"}
ContentTypes == {"narrative", "table"}

\* the metadata of one chunk, as far as filters look at it
Metas == [sectionName : SectionNames, contentType : ContentTypes]

IsDupFree(s) == \A i, j \in 1..Len(s) : s[i] = s[j] => i = j

\* ranked result lists over the chunks of the index
Rankings == {s \in SeqsUpTo(Docs, NumChunks) : IsDupFree(s)}

\* similarity rankings: the vector store scores every chunk
FullRankings == {s \in Rankings : Len(s) = NumChunks}

\* SECTION_METADATA_HINTS.keyRisks.preferredSections as a filter
PreferredSections ==
    [key |-> "sectionName", isArray |-> TRUE,
     items |-> {"risk_factors", "market_risk", "legal"}, value |-> ""]

TablesOnly ==
    [key |-> "contentType", isArray |-> FALSE, items |-> {}, value |-> "table"]

\* metadata filters, an object as the set of its entries; {} is the empty or
\* missing filter
Filters == {{}, {PreferredSections}, {TablesOnly}, {PreferredSections, TablesOnly}}

\* the test of applyMetadataFilter on one document
Satisfies(meta, filter) ==
    \A f \in filter :
        IF f.isArray THEN meta[f.key] \in f.items ELSE meta[f.key] = f.value

applyMetadataFilter(docs, filter, md) ==
    IF filter = {} THEN docs
    ELSE SelectSeq(docs, LAMBDA d : Satisfies(md[d], filter))

\* metadata.id is absent
NoId == ""

\* the chunk d of the index as the Document the two searches return;
\* pageContent is the text in blocks of 120 characters
Document(d) ==
    [id |-> "chunk_" \o ToString(d - 1), index |-> d - 1,
     pageContent |-> <<"text">>]

\* doc.metadata?.id || doc.pageContent.slice(0, 120)
docId(doc) ==
    IF doc.id # NoId THEN doc.id
    ELSE IF doc.pageContent = <<>> THEN "" ELSE doc.pageContent[1]

\* a Map that keeps every result as an entry of its own
InsertEveryResult(seen, results) == seen \o results

RECURSIVE InsertResults(_, _)
\* one pass of the inner loop: a document enters the fusedScores Map when
\* its docId is not a key yet
InsertResults(seen, results) ==
    IF results = <<>> THEN seen
    ELSE InsertResults(
             IF \E i \in 1..Len(seen) : docId(seen[i]) = docId(Head(results))
             THEN seen ELSE Append(seen, Head(results)),
             Tail(results))

RECURSIVE InsertionOrder(_, _)
\* the documents of the fusedScores Map, in the order they entered it
InsertionOrder(seen, resultSets) ==
    IF resultSets = <<>> THEN seen
    ELSE InsertionOrder(InsertResults(seen, Head(resultSets)), Tail(resultSets))

RECURSIVE Gcd(_, _)
Gcd(a, b) == IF b = 0 THEN a ELSE Gcd(b, a % b)

\* a + b over fractions <<num, den>>, in lowest terms
AddScore(a, b) ==
    LET num == a[1] * b[2] + b[1] * a[2]
        den == a[2] * b[2]
        g == Gcd(num, den)
    IN <<num \div g, den \div g>>

\* const contribution = 1 / (k + rank + 1)
Contribution(k, rank) == <<1, k + rank + 1>>

RECURSIVE ListScore(_, _, _, _)
\* what the ranks rank.. of one list add to the score of the key id
ListScore(results, rank, id, k) ==
    IF rank >= Len(results) THEN <<0, 1>>
    ELSE LET rest == ListScore(results, rank + 1, id, k)
         IN IF docId(results[rank + 1]) = id
            THEN AddScore(Contribution(k, rank), rest)
            ELSE rest

RECURSIVE RrfScore(_, _, _)
\* rrfScore of the key id: the sum of 1 / (k + rank + 1) over every place
\* of every list that holds a document of that key, as <<num, den>>
RrfScore(resultSets, id, k) ==
    IF resultSets = <<>> THEN <<0, 1>>
    ELSE AddScore(ListScore(Head(resultSets), 0, id, k),
                  RrfScore(Tail(resultSets), id, k))

\* the comparison of an ascending sort
Smaller(a, b) == a[1] * b[2] < b[1] * a[2]

\* a.rrfScore > b.rrfScore
Greater(a, b) == a[1] * b[2] > b[1] * a[2]

\* reciprocalRankFusion: sort by descending score; Array.prototype.sort is
\* stable, so equal scores stay in insertion order
reciprocalRankFusion(resultSets, k) ==
    LET order == InsertionOrder(<<>>, resultSets)
        n == Len(order)
        score == [i \in 1..n |-> RrfScore(resultSets, docId(order[i]), k)]
        Before(i, j) ==
            \/ Greater(score[i], score[j])
            \/ /\ ~Greater(score[j], score[i])
               /\ i < j
        place(i) == 1 + Cardinality({j \in 1..n : Before(j, i)})
    IN [p \in 1..n |-> order[CHOOSE i \in 1..n : place(i) = p]]

\* the ranked chunks as the result lists of the searches, and back
Documents(ranking) == [i \in 1..Len(ranking) |-> Document(ranking[i])]

ChunksOf(docs) == [i \in 1..Len(docs) |-> docs[i].index + 1]

\* hybridSearch, lines 217-219: filter the ranked list, keep the first topK
FilterAndCut(ranked, topK, filter, md) ==
    Slice(applyMetadataFilter(ranked, filter, md), topK)

\* hybridSearch: sem is the similarity ranking of the query over all chunks,
\* bm the BM25 ranking of the chunks with a positive score
hybridSearch(sem, bm, topK, filter, md, enabled) ==
    IF ~enabled THEN applyMetadataFilter(Slice(sem, topK), filter, md)
    ELSE FilterAndCut(
             ChunksOf(reciprocalRankFusion(
                 <<Documents(Slice(sem, 2 * topK)),
                   Documents(Slice(bm, 2 * topK))>>, RrfK)),
             topK, filter, md)

intelligentRetrieval(sem, bm, limit, filter, md, hasBm25, enabled) ==
    IF hasBm25 /\ enabled
    THEN hybridSearch(sem, bm, limit, filter, md, enabled)
    ELSE Slice(sem, limit)

RetrievalInit ==
    /\ ServerIdle
    /\ call = IdleCall
    /\ rr = IdleRerank
    /\ run = IdleRun
    /\ sec = IdleSection
    /\ fu = IdleFusion
    /\ ck = IdleChunking
    /\ lex = IdleLexical
    /\ qp = IdleQuery
    /\ cls = IdleClassify
    /\ ss = IdleSession
    /\ tb = IdleTables
    /\ cl = IdleClient
    /\ \E e \in BOOLEAN : ret = [IdleRetrieval EXCEPT !.enabled = e]

\* createSearchIndices (vector store and BM25 index) or createVectorStore /
\* loadVectorStore (vector store only) over the chunks of a document
CreateSearchIndices(md, hasBm25) ==
    /\ ret.pc = "idle"
    /\ ret' = [ret EXCEPT !.pc = "indexed", !.md = md, !.hasBm25 = hasBm25]
    /\ UNCHANGED offRetrieval

\* one call of intelligentRetrieval({vectorStore, bm25Index, query, limit,
\* metadataFilter}); sem and bm are what the two indices answer to the query
IntelligentRetrieval(sem, bm, limit, filter) ==
    /\ ret.pc = "indexed"
    /\ ret' = [ret EXCEPT !.pc = "returned", !.topK = limit, !.filter = filter,
                          !.sem = sem, !.bm = bm,
                          !.result = intelligentRetrieval(sem, bm, limit, filter,
                                        ret.md, ret.hasBm25, ret.enabled)]
    /\ UNCHANGED offRetrieval

\* the next document
RetrievalAgain ==
    /\ ret.pc = "returned"
    /\ ret' = [IdleRetrieval EXCEPT !.enabled = ret.enabled]
    /\ UNCHANGED offRetrieval

RetrievalNext ==
    \/ /\ ret.pc = "idle"
       /\ \E md \in [Docs -> Metas], b \in BOOLEAN : CreateSearchIndices(md, b)
    \/ /\ ret.pc = "indexed"
       /\ \E sem \in FullRankings, bm \in Rankings, k \in 1..MaxLimit,
             f \in Filters : IntelligentRetrieval(sem, bm, k, f)
    \/ RetrievalAgain

SpecRetrieval == RetrievalInit /\ [][RetrievalNext]_vars

\* C10: a retrieval made with a non-empty metadata filter returns only chunks
\* that satisfy the filter on every field, and at most topK of them, whether
\* hybrid search is enabled or not and whether a BM25 index exists or not.
C10_FilterRespected ==
    (ret.pc = "returned" /\ ret.filter # {}) =>
        /\ \A d \in Range(ret.result) : Satisfies(ret.md[d], ret.filter)
        /\ Len(ret.result) <= ret.topK

\* with hybrid search switched off the filter of a section is ignored: a
\* chunk of another section comes back
C10_FilterIgnored ==
    /\ ret.pc = "returned" /\ ret.hasBm25 /\ ~ret.enabled
    /\ ret.filter = {PreferredSections}
    /\ \E d \in Range(ret.result) : ret.md[d].sectionName = "mda"

(***************************************************************************)
(* generateReportSections: the retrieval of one section                    *)
(***************************************************************************)
\* the chunks of a report document, all narrative here
SectionMetas == [sectionName : SectionNames, contentType : {"narrative"}]

\* intelligentRetrieval seen from the section loop, where the BM25 index
\* always exists: ranked is the fused list of hybridSearch, or the similarity
\* ranking when hybrid search is switched off
RetrieveRanked(ranked, limit, filter, md, enabled) ==
    IF enabled THEN FilterAndCut(ranked, limit, filter, md)
    ELSE Slice(ranked, limit)

RECURSIVE MergeQueries(_, _, _, _, _, _)
\* multiQueryRetrieval: the loop over the queries, merged holds the documents
\* kept so far (seen holds their ids)
MergeQueries(merged, rankedLists, limit, filter, md, enabled) ==
    IF rankedLists = <<>> THEN merged
    ELSE MergeQueries(
             AppendMissing(merged,
                 RetrieveRanked(Head(rankedLists), limit, filter, md, enabled)),
             Tail(rankedLists), limit, filter, md, enabled)

\* a merge that pushes every result of every query
multiQueryRetrievalAll(rankedLists, limit, filter, md, enabled) ==
    IF rankedLists = <<>> THEN <<>>
    ELSE RetrieveRanked(Head(rankedLists), limit, filter, md, enabled)
         \o MergeQueries(<<>>, Tail(rankedLists), limit, filter, md, enabled)

multiQueryRetrieval(rankedLists, limit, filter, md, enabled) ==
    MergeQueries(<<>>, rankedLists, limit, filter, md, enabled)

\* the merge that pushes every unfiltered document
MergeAll(relevantDocs, unfilteredDocs) == relevantDocs \o unfilteredDocs

\* lines 952-958: push the unfiltered documents whose id is not yet seen
MergeUnseen(relevantDocs, unfilteredDocs) ==
    AppendMissing(relevantDocs, unfilteredDocs)

\* relevantDocs.length < 3 && metadataFilter
TooFew(relevantDocs, filter) ==
    Len(relevantDocs) < NarrowThreshold /\ filter # {}

SectionInit ==
    /\ ServerIdle
    /\ call = IdleCall
    /\ rr = IdleRerank
    /\ run = IdleRun
    /\ ret = IdleRetrieval
    /\ fu = IdleFusion
    /\ ck = IdleChunking
    /\ lex = IdleLexical
    /\ qp = IdleQuery
    /\ cls = IdleClassify
    /\ ss = IdleSession
    /\ tb = IdleTables
    /\ cl = IdleClient
    /\ \E e \in BOOLEAN : sec = [IdleSection EXCEPT !.enabled = e]

\* the section loop reaches keyRisks: the filter is built and the filtered
\* multiQueryRetrieval over the two section queries is awaited; fused1 and
\* fused2 are the ranked lists the indices give for the two queries
SectionRetrieve(md, limit, fused1, fused2) ==
    /\ sec.pc = "idle"
    /\ LET docs == multiQueryRetrieval(<<fused1, fused2>>, limit,
                                       {PreferredSections}, md, sec.enabled) IN
       sec' = [sec EXCEPT !.pc = "filtered", !.md = md, !.limit = limit,
                          !.fused = <<fused1, fused2>>,
                          !.filteredDocs = docs, !.relevantDocs = docs]
    /\ UNCHANGED offSection

\* too few filtered results: the same queries without the filter, merged
SectionRetryUnfiltered ==
    /\ sec.pc = "filtered"
    /\ TooFew(sec.relevantDocs, {PreferredSections})
    /\ LET unfilteredDocs == multiQueryRetrieval(sec.fused, sec.limit, {},
                                                 sec.md, sec.enabled) IN
       sec' = [sec EXCEPT !.pc = "retrieved", !.retried = TRUE,
                          !.unfilteredDocs = unfilteredDocs,
                          !.relevantDocs = MergeUnseen(@, unfilteredDocs)]
    /\ UNCHANGED offSection

\* enough filtered results: on to the reranking
SectionKeepFiltered ==
    /\ sec.pc = "filtered"
    /\ ~TooFew(sec.relevantDocs, {PreferredSections})
    /\ sec' = [sec EXCEPT !.pc = "retrieved"]
    /\ UNCHANGED offSection

\* the next section
SectionAgain ==
    /\ sec.pc = "retrieved"
    /\ sec' = [IdleSection EXCEPT !.enabled = sec.enabled]
    /\ UNCHANGED offSection

\* the head of a ranked list, as far as the largest limit reaches into it
TopRankings == {s \in Rankings : Len(s) <= MaxLimit}

\* answerQuestion, lines 1015-1035: the same loop over the expanded
\* sub-queries of the question, without a filter; fused holds the ranked list
\* the indices give for each of them
AnswerRetrieve(limit, fused) ==
    /\ sec.pc = "idle"
    /\ sec' = [sec EXCEPT !.pc = "asked", !.limit = limit, !.fused = fused,
                          !.relevantDocs =
                              multiQueryRetrieval(fused, limit, {}, <<>>,
                                                  sec.enabled)]
    /\ UNCHANGED offSection

\* the next question
AnswerAgain ==
    /\ sec.pc = "asked"
    /\ sec' = [IdleSection EXCEPT !.enabled = sec.enabled]
    /\ UNCHANGED offSection

SectionNext ==
    \/ /\ sec.pc = "idle"
       /\ \E md \in [Docs -> SectionMetas], k \in 1..MaxLimit,
             f1 \in Rankings, f2 \in Rankings : SectionRetrieve(md, k, f1, f2)
    \/ SectionRetryUnfiltered
    \/ SectionKeepFiltered
    \/ SectionAgain
    \/ /\ sec.pc = "idle"
       /\ \E k \in 1..MaxLimit, n \in 1..MaxSubQueries :
             \E fused \in [1..n -> TopRankings] : AnswerRetrieve(k, fused)
    \/ AnswerAgain

SpecSection == SectionInit /\ [][SectionNext]_vars

\* C9: a section whose filtered multi-query retrieval gave fewer than 3
\* chunks runs the queries again without the filter and goes on with the
\* filtered chunks in their order followed by the unfiltered chunks not yet
\* present, no chunk twice, and at least as many chunks as the unfiltered
\* retrieval gave; with 3 or more filtered chunks there is no second
\* retrieval and the filtered chunks are used as they are.
C9_NarrowFilterFallback ==
    sec.pc = "retrieved" =>
        /\ sec.retried <=> Len(sec.filteredDocs) < 3
        /\ IsDupFree(sec.relevantDocs)
        /\ Len(sec.relevantDocs) >= Len(sec.filteredDocs)
        /\ SubSeq(sec.relevantDocs, 1, Len(sec.filteredDocs)) = sec.filteredDocs
        /\ sec.retried =>
              /\ SubSeq(sec.relevantDocs, Len(sec.filteredDocs) + 1,
                        Len(sec.relevantDocs))
                    = SelectSeq(sec.unfilteredDocs,
                                LAMBDA d : d \notin Range(sec.filteredDocs))
              /\ Len(sec.relevantDocs) >= Len(sec.unfilteredDocs)
              /\ Range(sec.relevantDocs)
                    = Range(sec.filteredDocs) \cup Range(sec.unfilteredDocs)
        /\ ~sec.retried =>
              /\ sec.relevantDocs = sec.filteredDocs
              /\ sec.unfilteredDocs = <<>>

\* two filtered chunks, and an unfiltered retrieval that brings one of them
\* again together with a chunk of another section
C9_Witness ==
    /\ sec.pc = "retrieved" /\ sec.retried /\ sec.enabled
    /\ Len(sec.filteredDocs) = 2
    /\ Range(sec.filteredDocs) \cap Range(sec.unfilteredDocs) # {}
    /\ Len(sec.relevantDocs) = 3
    /\ sec.md[sec.relevantDocs[3]].sectionName = "mda"

\* what the queries returned, one after the other
RECURSIVE ReturnedDocs(_, _, _, _, _)
ReturnedDocs(rankedLists, limit, filter, md, enabled) ==
    IF rankedLists = <<>> THEN <<>>
    ELSE RetrieveRanked(Head(rankedLists), limit, filter, md, enabled)
         \o ReturnedDocs(Tail(rankedLists), limit, filter, md, enabled)

\* the place of the first occurrence of d in s
FirstAt(s, d) == CHOOSE i \in 1..Len(s) :
                     s[i] = d /\ \A j \in 1..(i - 1) : s[j] # d

\* merged holds every returned chunk once, in the order of first occurrence
MergedOf(merged, returned, queries, limit) ==
    /\ IsDupFree(merged)
    /\ Range(merged) = Range(returned)
    /\ \A i, j \in 1..Len(merged) :
           i < j => FirstAt(returned, merged[i]) < FirstAt(returned, merged[j])
    /\ Len(merged) <= queries * limit

\* C25: the merged result of multi-query retrieval, for a report section
\* (filtered, and unfiltered when the section retries) and for a question,
\* holds no chunk id twice, holds every chunk some query returned, keeps the
\* chunks in the order of their first occurrence over the queries taken in
\* order, and is no longer than the number of queries times the limit.
C25_MergedByChunkId ==
    /\ sec.pc \in {"filtered", "retrieved"} =>
           MergedOf(sec.filteredDocs,
                    ReturnedDocs(sec.fused, sec.limit, {PreferredSections},
                             sec.md, sec.enabled),
                    Len(sec.fused), sec.limit)
    /\ sec.pc = "retrieved" /\ sec.retried =>
           MergedOf(sec.unfilteredDocs,
                    ReturnedDocs(sec.fused, sec.limit, {}, sec.md, sec.enabled),
                    Len(sec.fused), sec.limit)
    /\ sec.pc = "asked" =>
           MergedOf(sec.relevantDocs,
                    ReturnedDocs(sec.fused, sec.limit, {}, <<>>, sec.enabled),
                    Len(sec.fused), sec.limit)

\* three sub-queries of a question with limit 2: the second brings the first
\* chunk of the first again, the third brings a chunk of each
C25_Witness ==
    /\ sec.pc = "asked" /\ sec.enabled /\ sec.limit = 2
    /\ sec.fused = <<<<1, 2>>, <<3, 1>>, <<2, 3>>>>
    /\ sec.relevantDocs = <<1, 2, 3>>


(***************************************************************************)
(* Fusion: reciprocalRankFusion over the result lists of the two searches  *)
(***************************************************************************)
\* hybridSearch hands over [semanticResults, bm25Results]
NumResultSets == 2

\* two chunks with an id, two without one whose texts start alike
FusionDocs ==
    {[id |-> "chunk_0", index |-> 0, pageContent |-> <<"text">>],
     [id |-> "chunk_1", index |-> 1, pageContent |-> <<"text">>],
     [id |-> NoId, index |-> 2, pageContent |-> <<"Revenue", "grew">>],
     [id |-> NoId, index |-> 3, pageContent |-> <<"Revenue", "fell">>]}

FusionInit ==
    /\ ServerIdle
    /\ call = IdleCall
    /\ rr = IdleRerank
    /\ run = IdleRun
    /\ ret = IdleRetrieval
    /\ sec = IdleSection
    /\ fu = IdleFusion
    /\ ck = IdleChunking
    /\ lex = IdleLexical
    /\ qp = IdleQuery
    /\ cls = IdleClassify
    /\ ss = IdleSession
    /\ tb = IdleTables
    /\ cl = IdleClient

\* one of the searches ranks one more document: a search returns a
\* document of the index once
FusionRank(s, doc) ==
    /\ fu.pc = "idle"
    /\ Len(fu.resultSets[s]) < MaxRank
    /\ doc \notin Range(fu.resultSets[s])
    /\ fu' = [fu EXCEPT !.resultSets[s] = Append(@, doc)]
    /\ UNCHANGED offFusion

\* reciprocalRankFusion(resultSets, k) is called and returns
Fuse(k) ==
    /\ fu.pc = "idle"
    /\ fu' = [fu EXCEPT !.pc = "fused", !.k = k,
                        !.fused = reciprocalRankFusion(fu.resultSets, k)]
    /\ UNCHANGED offFusion

\* the next query
FusionAgain ==
    /\ fu.pc = "fused"
    /\ fu' = IdleFusion
    /\ UNCHANGED offFusion

FusionNext ==
    \/ \E s \in 1..NumResultSets, doc \in FusionDocs : FusionRank(s, doc)
    \/ \E k \in 0..MaxK : Fuse(k)
    \/ FusionAgain

SpecFusion == FusionInit /\ [][FusionNext]_vars

\* the docIds of a list of documents
KeysOf(docs) == {docId(docs[i]) : i \in 1..Len(docs)}

\* the places <<list, rank>> (rank from 0) that hold a document of key id
PlacesOf(id) ==
    {pl \in (1..NumResultSets) \X (0..(MaxRank - 1)) :
        /\ pl[2] < Len(fu.resultSets[pl[1]])
        /\ docId(fu.resultSets[pl[1]][pl[2] + 1]) = id}

RECURSIVE DenProduct(_, _)
\* (k + 1) * ... * (k + n)
DenProduct(k, n) == IF n = 0 THEN 1 ELSE (k + n) * DenProduct(k, n - 1)

RECURSIVE SumOver(_, _)
\* the sum of DenProduct / (k + rank + 1) over a set of places
SumOver(places, k) ==
    IF places = {} THEN 0
    ELSE LET pl == CHOOSE x \in places : TRUE
         IN DenProduct(k, MaxRank) \div (k + pl[2] + 1)
            + SumOver(places \ {pl}, k)

\* the fused score of the key id, times DenProduct(k, MaxRank)
FusedScore(id) == SumOver(PlacesOf(id), fu.k)

\* C11: reciprocalRankFusion returns every distinct chunk of the input
\* lists exactly once and nothing else (a chunk is told by its metadata id,
\* or by the first 120 characters of its text when it has no id), ordered
\* by non-increasing fused score, the score of a chunk being the sum of
\* 1 / (k + rank + 1) over its places in the lists.
C11_FusionComplete ==
    fu.pc = "fused" =>
        LET out == fu.fused
        IN /\ KeysOf(out) = UNION {KeysOf(fu.resultSets[s]) :
                                      s \in 1..NumResultSets}
           /\ \A i, j \in 1..Len(out) : docId(out[i]) = docId(out[j]) => i = j
           /\ \A i \in 1..Len(out) :
                  \E s \in 1..NumResultSets : out[i] \in Range(fu.resultSets[s])
           /\ \A i, j \in 1..Len(out) :
                  i < j => FusedScore(docId(out[i])) >= FusedScore(docId(out[j]))

\* two lists that share documents have been fused, the first holds both
\* id-less documents of one text prefix
C11_Witness ==
    /\ fu.pc = "fused"
    /\ Len(fu.resultSets[1]) = MaxRank
    /\ Len(fu.resultSets[2]) >= 2
    /\ Len(fu.fused) = 3
    /\ \E i \in 1..Len(fu.fused) : fu.fused[i].id = NoId
    /\ \E i, j \in 1..MaxRank :
           /\ fu.resultSets[1][i].id = NoId
           /\ fu.resultSets[1][j].id = NoId
           /\ fu.resultSets[1][i] # fu.resultSets[1][j]
    /\ \E i, j \in 1..Len(fu.fused) :
           FusedScore(docId(fu.fused[i])) > FusedScore(docId(fu.fused[j]))


\* the lists that hold a document of key id
ListsWith(id) ==
    {s \in 1..NumResultSets : id \in KeysOf(fu.resultSets[s])}

\* no two documents of one list share a docId
KeysOnce(results) ==
    \A i, j \in 1..Len(results) :
        docId(results[i]) = docId(results[j]) => i = j

\* C12 as stated: for any input lists and any constant k, a chunk that is
\* in every input list is placed no lower in the output than a chunk that
\* is in only one of them.
C12_InEveryListNoLower ==
    fu.pc = "fused" =>
        \A i, j \in 1..Len(fu.fused) :
            /\ ListsWith(docId(fu.fused[i])) = 1..NumResultSets
            /\ Cardinality(ListsWith(docId(fu.fused[j]))) = 1
            => i <= j

\* C12 amended: for a constant k >= 0 and at least two input lists, each
\* at most k + 1 long and holding a chunk at most once, a chunk that is in
\* every input list is placed above every chunk that is in only one.
C12_ShortListsInEveryListFirst ==
    (/\ fu.pc = "fused"
     /\ fu.k >= 0
     /\ NumResultSets >= 2
     /\ \A s \in 1..NumResultSets :
            /\ Len(fu.resultSets[s]) <= fu.k + 1
            /\ KeysOnce(fu.resultSets[s]))
    => \A i, j \in 1..Len(fu.fused) :
           /\ ListsWith(docId(fu.fused[i])) = 1..NumResultSets
           /\ Cardinality(ListsWith(docId(fu.fused[j]))) = 1
           => i < j

\* lists of k + 1 documents fused: the chunk that closes both lists is
\* placed above the chunk that opens the first list only
C12_Witness ==
    /\ fu.pc = "fused"
    /\ fu.k >= 1
    /\ \A s \in 1..NumResultSets :
           /\ Len(fu.resultSets[s]) = fu.k + 1
           /\ KeysOnce(fu.resultSets[s])
           /\ docId(fu.resultSets[s][fu.k + 1]) = docId(fu.fused[1])
    /\ Len(fu.fused) >= 2
    /\ docId(fu.resultSets[1][1]) = docId(fu.fused[2])
    /\ ListsWith(docId(fu.fused[2])) = {1}


(***************************************************************************)
(* Chunking: splitTextIntoSemanticChunks over a cleaned text               *)
(***************************************************************************)
ChunkingInit ==
    /\ ServerIdle
    /\ call = IdleCall
    /\ rr = IdleRerank
    /\ run = IdleRun
    /\ ret = IdleRetrieval
    /\ sec = IdleSection
    /\ fu = IdleFusion
    /\ ck = IdleChunking
    /\ lex = IdleLexical
    /\ qp = IdleQuery
    /\ cls = IdleClassify
    /\ ss = IdleSession
    /\ tb = IdleTables
    /\ cl = IdleClient

\* the cleaned text gets one more line; cleanText trims the text and
\* leaves at most two blank lines in a row
WriteLine(line) ==
    /\ ck.pc = "idle"
    /\ Len(ck.text) < MaxLines
    /\ line = Blank =>
           /\ ck.text # <<>>
           /\ ~(/\ Len(ck.text) >= 2
                /\ ck.text[Len(ck.text)] = Blank
                /\ ck.text[Len(ck.text) - 1] = Blank)
    /\ ck' = [ck EXCEPT !.text = Append(@, line)]
    /\ UNCHANGED offChunking

\* splitTextIntoSemanticChunks(text, docClassification) is called and returns
SplitText ==
    /\ ck.pc = "idle"
    /\ ck.text # <<>> => ck.text[Len(ck.text)] # Blank
    /\ ck' = [ck EXCEPT !.pc = "chunked",
                        !.documents = splitTextIntoSemanticChunks(ck.text)]
    /\ UNCHANGED offChunking

\* the next document
ChunkingAgain ==
    /\ ck.pc = "chunked"
    /\ ck' = IdleChunking
    /\ UNCHANGED offChunking

ChunkingNext ==
    \/ \E line \in LineShapes : WriteLine(line)
    \/ SplitText
    \/ ChunkingAgain

SpecChunking == ChunkingInit /\ [][ChunkingNext]_vars

\* C13: the chunks of splitTextIntoSemanticChunks have pairwise distinct
\* ids, their index values are exactly 0..N-1 in the order of emission, and
\* each id is 'chunk_' followed by the index, across all regions.
C13_DenseIndex ==
    ck.pc = "chunked" =>
        /\ \A i \in 1..Len(ck.documents) :
               /\ ck.documents[i].index = i - 1
               /\ ck.documents[i].id = "chunk_" \o ToString(i - 1)
        /\ \A i, j \in 1..Len(ck.documents) :
               ck.documents[i].id = ck.documents[j].id => i = j

\* a text of two regions, one of them cut into two chunks
C13_Witness ==
    /\ ck.pc = "chunked"
    /\ Len(ck.documents) = 3
    /\ ck.documents[1].region = 1
    /\ ck.documents[2].region = 2
    /\ ck.documents[3].region = 2


\* the lines of the text that a chunk holds whole
LinesOf(doc) == {doc.units[u].line : u \in 1..Len(doc.units)} \ {0}

\* a sentence, or a text without a sentence end, that alone is over maxSize
Unsplittable(units) ==
    \E i, j \in 1..Len(units) :
        /\ i <= j
        /\ \A h \in i..(j - 1) : ~units[h].stop
        /\ Length(Trim(SubSeq(units, i, j))) > MaxChunkSize

\* C14: every chunk of chunkRegion is at most the maximum size long unless
\* it is a table paragraph or a single paragraph or sentence that cannot be
\* split; merging a short tail and carrying the overlap never push a chunk
\* over the maximum.
C14_ChunkWithinMax ==
    ck.pc = "chunked" =>
        \A i \in 1..Len(ck.documents) :
            \/ Length(ck.documents[i].units) <= MaxChunkSize
            \/ ck.documents[i].table
            \/ Unsplittable(ck.documents[i].units)

\* a chunk over the maximum that is the carried overlap and one paragraph
\* shorter than the maximum
C14_OverlapOverMax ==
    /\ ck.pc = "chunked"
    /\ \E i \in 1..Len(ck.documents) :
           LET units == ck.documents[i].units
           IN /\ ~ck.documents[i].table
              /\ Len(units) = 2
              /\ units[1].line = 0
              /\ units[2].line # 0
              /\ units[2].len < MaxChunkSize
              /\ Length(units) > MaxChunkSize

\* the paragraphs of every region of the text
AllParagraphs ==
    LET regions == buildSectionRegions(ck.text, detectSections(ck.text))
    IN UNION {Range(Paragraphs(ck.text, regions[n])) : n \in 1..Len(regions)}

\* C15: every non-blank paragraph of the cleaned text is in at least one
\* chunk, line by line where a long paragraph is split (none is lost by
\* the flush before a table, by the merge of the tail or by the split of
\* a long paragraph), and only the overlap is in more than one.
C15_NoParagraphLost ==
    ck.pc = "chunked" =>
        /\ \A para \in AllParagraphs :
               \A n \in para.first..para.last :
                   \E i \in 1..Len(ck.documents) : n \in LinesOf(ck.documents[i])
        /\ \A i, j \in 1..Len(ck.documents) :
               i # j => LinesOf(ck.documents[i]) \cap LinesOf(ck.documents[j]) = {}

\* a short paragraph in front of a table is in no chunk
C15_ParagraphBeforeTableLost ==
    /\ ck.pc = "chunked"
    /\ Len(ck.documents) = 1
    /\ ck.documents[1].table
    /\ ck.text[1].kind = "prose"
    /\ 1 \notin LinesOf(ck.documents[1])

\* the non-blank lines of a table
RowsOf(t) == {n \in t.lineStart..t.lineEnd : ck.text[n].kind # "blank"}

\* C16: every table of detectTables is in one piece in a single chunk,
\* whether or not blank lines set it off from the text around it and
\* whether or not it holds an absorbed blank line.
C16_TableInOneChunk ==
    ck.pc = "chunked" =>
        LET tables == detectTables(ck.text)
        IN \A t \in 1..Len(tables) :
               \E i \in 1..Len(ck.documents) :
                   \E u \in 1..Len(ck.documents[i].units) :
                       \A n \in RowsOf(tables[t]) :
                           LET at == u + Cardinality(
                                       {r \in RowsOf(tables[t]) : r < n})
                           IN /\ at <= Len(ck.documents[i].units)
                              /\ ck.documents[i].units[at].line = n

\* a table with an absorbed blank line comes out as two chunks
C16_TableInTwoChunks ==
    /\ ck.pc = "chunked"
    /\ Len(detectTables(ck.text)) = 1
    /\ \E n \in 2..(Len(ck.text) - 1) :
           /\ ck.text[n] = Blank
           /\ detectTables(ck.text)[1].lineStart < n
           /\ n < detectTables(ck.text)[1].lineEnd
           /\ \E i, j \in 1..Len(ck.documents) :
                  /\ i # j
                  /\ (n - 1) \in LinesOf(ck.documents[i])
                  /\ (n + 1) \in LinesOf(ck.documents[j])

\* the chunks whose text starts with a whole line of the document, not with
\* a piece of the chunk before them
StartsAtLine(doc) == doc.units # <<>> /\ doc.units[1].line # 0

\* the relative offset of the text of the chunk itself, in thousandths
OwnPosition(lines, doc) ==
    ToFixed3(LineOffset(lines, doc.units[1].line), TotalChars(lines))

\* C27: the stored position of every chunk lies in [0,1] and is the relative
\* offset of the text of that chunk in the document (stated for the chunks
\* that start with a whole line), and the stored region agrees with the
\* stored position: front_matter exactly when it is below 0.08, back_matter
\* exactly when it is above 0.92, body otherwise.
C27_PositionOfChunk ==
    ck.pc = "chunked" =>
        \A d \in 1..Len(ck.documents) :
            LET doc == ck.documents[d] IN
            /\ doc.position \in 0..1000
            /\ StartsAtLine(doc) => doc.position = OwnPosition(ck.text, doc)
            /\ doc.docRegion = "front_matter" <=> doc.position < 80
            /\ doc.docRegion = "back_matter" <=> doc.position > 920
            /\ doc.docRegion \in {"front_matter", "back_matter", "body"}

\* two chunks of one region: the second starts in the second half of the
\* document and is stored with position 0 and region front_matter
C27_SecondChunkAtZero ==
    /\ ck.pc = "chunked"
    /\ Len(ck.documents) = 2
    /\ ck.documents[2].region = ck.documents[1].region
    /\ StartsAtLine(ck.documents[2])
    /\ OwnPosition(ck.text, ck.documents[2]) > 500
    /\ ck.documents[2].position = 0
    /\ ck.documents[2].docRegion = "front_matter"


(***************************************************************************)
(* Lexical index: tokenize and BM25Index                                   *)
(***************************************************************************)
\* A text is a sequence of characters.
UpperCase ==
    <<"A", "B", "C", "D", "E", "F", "G", "H", "I", "J", "K", "L", "M", "N",
      "O", "P", "Q", "R", "S", "T", "U", "V", "W", "X", "Y", "Z">>

LowerCase ==
    <<"a", "b", "c", "d", "e", "f", "g", "h", "i", "j", "k", "l", "m", "n",
      "o", "p", "q", "r", "s", "t", "u", "v", "w", "x", "y", "z">>

Digits == {"0", "1", "2", "3", "4", "5", "6", "7", "8", "9"}

\* \w
WordChars == Range(UpperCase) \cup Range(LowerCase) \cup Digits \cup {"_"}

\* \s
WhiteSpace == {" "}

STOP_WORDS ==
    {<<"t", "h", "e">>, <<"a">>, <<"a", "n">>, <<"a", "n", "d">>,
     <<"o", "r">>, <<"b", "u", "t">>, <<"i", "n">>, <<"o", "n">>,
     <<"a", "t">>, <<"t", "o">>, <<"f", "o", "r">>, <<"o", "f">>,
     <<"w", "i", "t", "h">>, <<"b", "y">>, <<"f", "r", "o", "m">>,
     <<"i", "s">>, <<"w", "a", "s">>, <<"a", "r", "e">>,
     <<"w", "e", "r", "e">>, <<"b", "e">>, <<"b", "e", "e", "n">>,
     <<"b", "e", "i", "n", "g">>, <<"h", "a", "v", "e">>, <<"h", "a", "s">>,
     <<"h", "a", "d">>, <<"d", "o">>, <<"d", "o", "e", "s">>,
     <<"d", "i", "d">>, <<"w", "i", "l", "l">>, <<"w", "o", "u", "l", "d">>,
     <<"c", "o", "u", "l", "d">>, <<"s", "h", "o", "u", "l", "d">>,
     <<"m", "a", "y">>, <<"m", "i", "g", "h", "t">>,
     <<"s", "h", "a", "l", "l">>, <<"c", "a", "n">>, <<"t", "h", "i", "s">>,
     <<"t", "h", "a", "t">>, <<"t", "h", "e", "s", "e">>,
     <<"t", "h", "o", "s", "e">>, <<"i", "t">>, <<"i", "t", "s">>,
     <<"a", "s">>, <<"i", "f">>, <<"n", "o", "t">>, <<"n", "o">>,
     <<"s", "o">>, <<"u", "p">>, <<"o", "u", "t">>,
     <<"a", "b", "o", "u", "t">>, <<"i", "n", "t", "o">>,
     <<"o", "v", "e", "r">>, <<"a", "f", "t", "e", "r">>,
     <<"t", "h", "a", "n">>, <<"a", "l", "s", "o">>, <<"s", "u", "c", "h">>,
     <<"e", "a", "c", "h">>, <<"w", "h", "i", "c", "h">>,
     <<"t", "h", "e", "i", "r">>, <<"t", "h", "e", "r", "e">>,
     <<"t", "h", "e", "n">>, <<"t", "h", "e", "m">>, <<"t", "h", "e", "y">>,
     <<"w", "e">>, <<"o", "u", "r">>, <<"h", "e">>, <<"s", "h", "e">>,
     <<"h", "i", "s">>, <<"h", "e", "r">>, <<"w", "h", "o">>,
     <<"a", "l", "l">>, <<"a", "n", "y">>, <<"s", "o", "m", "e">>}

\* the texts of the documents and of the queries; the first is the
\* sentence of the tokenizer scenario
\* "Revenue grew 22% to $30.4 billion."
Scenario ==
    <<"R", "e", "v", "e", "n", "u", "e", " ", "g", "r", "e", "w", " ", "2",
      "2", "%", " ", "t", "o", " ", "$", "3", "0", ".", "4", " ", "b", "i",
      "l", "l", "i", "o", "n", ".">>

\* "to the"
OnlyStopWords ==
    <<"t", "o", " ", "t", "h", "e">>

\* "Revenue, revenue!"
Repeated ==
    <<"R", "e", "v", "e", "n", "u", "e", ",", " ", "r", "e", "v", "e", "n",
      "u", "e", "!">>

\* "Net debt grew"
NetDebt ==
    <<"N", "e", "t", " ", "d", "e", "b", "t", " ", "g", "r", "e", "w">>

\* "A $5 fee"
Fee ==
    <<"A", " ", "$", "5", " ", "f", "e", "e">>

Texts == {Scenario, OnlyStopWords, Repeated, NetDebt, Fee, <<>>}

\* String.prototype.toLowerCase, one character
toLowerCase(c) ==
    IF c \in Range(UpperCase)
    THEN LowerCase[CHOOSE i \in 1..Len(UpperCase) : UpperCase[i] = c]
    ELSE c

\* the characters /[^\w\s$%]/g leaves in place
Kept(c) == c \in WordChars \cup WhiteSpace \cup {"$", "%"}

RECURSIVE SplitWhiteSpace(_, _, _)
\* split(/\s+/): the runs of characters between white space (the empty
\* strings that split gives at the ends do not pass the length filter)
SplitWhiteSpace(text, word, words) ==
    IF text = <<>>
    THEN IF word = <<>> THEN words ELSE Append(words, word)
    ELSE IF Head(text) \in WhiteSpace
         THEN SplitWhiteSpace(Tail(text), <<>>,
                              IF word = <<>> THEN words ELSE Append(words, word))
    ELSE SplitWhiteSpace(Tail(text), Append(word, Head(text)), words)

tokenize(text) ==
    LET lowered == [i \in 1..Len(text) |-> toLowerCase(text[i])]
        replaced == [i \in 1..Len(text) |->
                        IF Kept(lowered[i]) THEN lowered[i] ELSE " "]
    IN SelectSeq(SplitWhiteSpace(replaced, <<>>, <<>>),
                 LAMBDA t : Len(t) > 1 /\ t \notin STOP_WORDS)

\* freqs.get(token) || 0
Freq(tokens, token) == Cardinality({i \in 1..Len(tokens) : tokens[i] = token})

\* _buildIndex: the docData entry of every document
BuildDocData(documents) ==
    [i \in 1..Len(documents) |->
        LET tokens == tokenize(documents[i])
        IN [tokens |-> tokens, length |-> Len(tokens)]]

\* this.docFreqs.get(token) || 0
DocFreq(docData, token) ==
    Cardinality({i \in 1..Len(docData) : token \in Range(docData[i].tokens)})

RECURSIVE TotalLength(_)
TotalLength(docData) ==
    IF docData = <<>> THEN 0
    ELSE Head(docData).length + TotalLength(Tail(docData))

\* Math.log((N - df + 0.5) / (df + 0.5) + 1) in thousandths, for N up to 4:
\* IdfTable[N][df]
IdfTable ==
    <<<<288>>, <<693, 182>>, <<981, 470, 134>>, <<1204, 693, 357, 105>>>>

\* idf * tfNorm in thousandths, with k1 = 1.5 and b = 0.75:
\* tfNorm = tf * 2.5 / (tf + 1.5 * (0.25 + 0.75 * length / avgDL)) and
\* avgDL = total / N
TermScore(docData, i, token) ==
    LET N == Len(docData)
        total == TotalLength(docData)
        tf == Freq(docData[i].tokens, token)
        df == DocFreq(docData, token)
        tfNorm == (20000 * tf * total)
                      \div (8 * tf * total + 3 * total + 9 * docData[i].length * N)
    IN IF tf = 0 \/ df = 0 THEN 0
       ELSE (IdfTable[N][df] * tfNorm) \div 1000

RECURSIVE DocScore(_, _, _)
\* the inner loop of search: the sum over the query tokens, one term for
\* every occurrence of a token in the query
DocScore(docData, i, queryTokens) ==
    IF queryTokens = <<>> THEN 0
    ELSE TermScore(docData, i, Head(queryTokens))
         + DocScore(docData, i, Tail(queryTokens))

\* a test that lets a score of zero pass
NotNegative(score) == score >= 0

\* if (score > 0)
Positive(score) == score > 0

\* BM25Index.search(query, topK): scores.sort(...).slice(0, topK); the sort
\* is stable
search(docData, queryTokens, topK) ==
    LET score == [i \in 1..Len(docData) |-> DocScore(docData, i, queryTokens)]
        scored == {i \in 1..Len(docData) : Positive(score[i])}
        Before(i, j) == score[i] > score[j] \/ (score[i] = score[j] /\ i < j)
        place(i) == 1 + Cardinality({j \in scored : Before(j, i)})
        sorted == [p \in 1..Cardinality(scored) |->
                      LET i == CHOOSE j \in scored : place(j) = p
                      IN [index |-> i, score |-> score[i]]]
    IN Slice(sorted, topK)

LexicalInit ==
    /\ ServerIdle
    /\ call = IdleCall
    /\ rr = IdleRerank
    /\ run = IdleRun
    /\ ret = IdleRetrieval
    /\ sec = IdleSection
    /\ fu = IdleFusion
    /\ ck = IdleChunking
    /\ lex = IdleLexical
    /\ qp = IdleQuery
    /\ cls = IdleClassify
    /\ ss = IdleSession
    /\ tb = IdleTables
    /\ cl = IdleClient

\* one more document for the index
AddDocument(text) ==
    /\ lex.pc = "idle"
    /\ Len(lex.documents) < MaxDocs
    /\ lex' = [lex EXCEPT !.documents = Append(@, text)]
    /\ UNCHANGED offLexical

\* new BM25Index(documents)
BuildIndex ==
    /\ lex.pc = "idle"
    /\ lex' = [lex EXCEPT !.pc = "indexed",
                          !.docData = BuildDocData(lex.documents)]
    /\ UNCHANGED offLexical

\* bm25Index.search(query, topK) is called and returns
Search(query, topK) ==
    /\ lex.pc = "indexed"
    /\ LET queryTokens == tokenize(query)
       IN lex' = [lex EXCEPT !.pc = "searched", !.query = query,
                             !.topK = topK, !.queryTokens = queryTokens,
                             !.results = search(lex.docData, queryTokens, topK)]
    /\ UNCHANGED offLexical

\* the next query on the same index
SearchAgain ==
    /\ lex.pc = "searched"
    /\ lex' = [lex EXCEPT !.pc = "indexed", !.query = <<>>, !.topK = 0,
                          !.queryTokens = <<>>, !.results = <<>>]
    /\ UNCHANGED offLexical

LexicalNext ==
    \/ \E text \in Texts : AddDocument(text)
    \/ BuildIndex
    \/ /\ lex.pc = "indexed"
       /\ \E query \in Texts, topK \in 0..MaxDocs : Search(query, topK)
    \/ SearchAgain

SpecLexical == LexicalInit /\ [][LexicalNext]_vars

\* the tokens of the scenario sentence a tokenizer that keeps decimal
\* amounts whole would give, and the stop word it has to drop
Percentage == <<"2", "2", "%">>

DollarAmount == <<"$", "3", "0", ".", "4">>

StopWordTo == <<"t", "o">>

\* C17: tokenize keeps dollar amounts and percentages as single tokens:
\* the tokens of "Revenue grew 22% to $30.4 billion." contain 22% and $30.4
\* and not the stop word 'to'; every token is lowercase, longer than one
\* character, no stop word and made only of word characters, '$' and '%'.
C17_AmountsAreTokens ==
    lex.pc = "searched" =>
        /\ lex.query = Scenario =>
               /\ Percentage \in Range(lex.queryTokens)
               /\ DollarAmount \in Range(lex.queryTokens)
               /\ StopWordTo \notin Range(lex.queryTokens)
        /\ \A n \in 1..Len(lex.queryTokens) :
               LET t == lex.queryTokens[n]
               IN /\ Len(t) > 1
                  /\ t \notin STOP_WORDS
                  /\ \A i \in 1..Len(t) :
                         t[i] \in (WordChars \ Range(UpperCase)) \cup {"$", "%"}

\* the scenario sentence gives revenue, grew, 22%, $30 and billion
C17_AmountCutAtPoint ==
    /\ lex.pc = "searched"
    /\ lex.query = Scenario
    /\ Len(lex.queryTokens) = 5
    /\ lex.queryTokens[3] = Percentage
    /\ lex.queryTokens[4] = <<"$", "3", "0">>


\* the document i of the index shares a token with the query
SharesToken(i) ==
    Range(lex.docData[i].tokens) \cap Range(lex.queryTokens) # {}

\* C18: for any corpus and any query string BM25Index.search returns at
\* most topK results, only documents that share a token with the tokenized
\* query, each with a score above zero, in non-increasing order of score
\* with equal scores in the order of the documents; a query without tokens
\* or without a token of the corpus, or an empty corpus, gives an empty list.
C18_SearchResults ==
    lex.pc = "searched" =>
        /\ Len(lex.results) <= lex.topK
        /\ \A p \in 1..Len(lex.results) :
               /\ lex.results[p].index \in 1..Len(lex.docData)
               /\ SharesToken(lex.results[p].index)
               /\ lex.results[p].score > 0
        /\ \A p, q \in 1..Len(lex.results) :
               p < q =>
                   \/ lex.results[p].score > lex.results[q].score
                   \/ /\ lex.results[p].score = lex.results[q].score
                      /\ lex.results[p].index < lex.results[q].index
        /\ (\A i \in 1..Len(lex.docData) : ~SharesToken(i)) => lex.results = <<>>

\* a search that ranks the second document of the index above the first
C18_Witness ==
    /\ lex.pc = "searched"
    /\ Len(lex.results) = 2
    /\ lex.results[1].index = 2
    /\ lex.results[1].score > lex.results[2].score


(***************************************************************************)
(* Query processing: processQuery, decomposeQuery, expandFinancialTerms    *)
(***************************************************************************)
SimpleQuestionWords == 8

\* A JSON value is a record with its type t; a string carries the number of
\* its words and whether it holds a trigger of FINANCIAL_SYNONYMS.
Strings ==
    [t : {"string"}, words : 1..MaxWords, trigger : BOOLEAN, expanded : {FALSE}]

\* what the LLM puts into its array: strings, numbers, null
Elements ==
    {s \in Strings : s.words = 1} \cup
    {[t |-> "number", words |-> 0, trigger |-> FALSE, expanded |-> FALSE],
     [t |-> "null", words |-> 0, trigger |-> FALSE, expanded |-> FALSE]}

\* what the fetch of decomposeQuery can come to: it rejects, the status is
\* not 2xx, the content is empty, is not JSON, is JSON that is no array, or
\* is a JSON array
DecompositionResponses ==
    {"rejects", "not-ok", "no-content", "not-json", "json-object", "json-array"}

\* expandFinancialTerms: toLowerCase throws on what is not a string
CanExpand(query) == query.t = "string"

expandFinancialTerms(query, expansionEnabled) ==
    IF ~expansionEnabled THEN query
    ELSE [query EXCEPT !.expanded = query.trigger]

\* decomposeQuery after the fetch settled
Decomposed(question, response, parsed) ==
    IF response = "json-array" /\ Len(parsed) > 0
    THEN Slice(parsed, MaxSubQueries)
    ELSE <<question>>

QueryInit ==
    /\ ServerIdle
    /\ call = IdleCall
    /\ rr = IdleRerank
    /\ run = IdleRun
    /\ ret = IdleRetrieval
    /\ sec = IdleSection
    /\ fu = IdleFusion
    /\ ck = IdleChunking
    /\ lex = IdleLexical
    /\ cls = IdleClassify
    /\ ss = IdleSession
    /\ tb = IdleTables
    /\ cl = IdleClient
    /\ \E d, e \in BOOLEAN :
           qp = [IdleQuery EXCEPT !.decompositionEnabled = d,
                                  !.expansionEnabled = e]

\* processQuery(question, apiKey): classifyQuery, then decomposeQuery up to
\* its fetch, or to its return when decomposition is off or the question
\* has fewer than 8 words
ProcessQuery(question) ==
    /\ qp.pc = "idle"
    /\ qp' = IF ~qp.decompositionEnabled \/ question.words < SimpleQuestionWords
             THEN [qp EXCEPT !.pc = "expand", !.question = question,
                             !.subQueries = <<question>>]
             ELSE [qp EXCEPT !.pc = "fetch", !.question = question,
                             !.fetches = @ + 1]
    /\ UNCHANGED offQuery

\* the fetch settles; decomposeQuery returns
FetchSettles(response, parsed) ==
    /\ qp.pc = "fetch"
    /\ response # "json-array" => parsed = <<>>
    /\ qp' = [qp EXCEPT !.pc = "expand", !.response = response,
                        !.parsed = parsed,
                        !.subQueries = Decomposed(qp.question, response, parsed)]
    /\ UNCHANGED offQuery

\* subQueries.map(expandFinancialTerms), generateMetadataHints, return
ExpandQueries ==
    /\ qp.pc = "expand"
    /\ qp' = IF qp.expansionEnabled
                /\ \E i \in 1..Len(qp.subQueries) : ~CanExpand(qp.subQueries[i])
             THEN [qp EXCEPT !.pc = "thrown"]
             ELSE [qp EXCEPT !.pc = "returned",
                             !.expandedQueries =
                                 [i \in 1..Len(qp.subQueries) |->
                                     expandFinancialTerms(qp.subQueries[i],
                                                          qp.expansionEnabled)]]
    /\ UNCHANGED offQuery

\* the next question
QueryAgain ==
    /\ qp.pc \in {"returned", "thrown"}
    /\ qp' = [IdleQuery EXCEPT
                 !.decompositionEnabled = qp.decompositionEnabled,
                 !.expansionEnabled = qp.expansionEnabled]
    /\ UNCHANGED offQuery

QueryNext ==
    \/ \E question \in Strings : ProcessQuery(question)
    \/ /\ qp.pc = "fetch"
       /\ \E response \in DecompositionResponses,
             parsed \in SeqsUpTo(Elements, MaxParsed) :
              FetchSettles(response, parsed)
    \/ ExpandQueries
    \/ QueryAgain

SpecQuery == QueryInit /\ [][QueryNext]_vars

\* the LLM answered with a non-empty JSON array of strings
ArrayOfStrings(q) ==
    /\ q.response = "json-array"
    /\ q.parsed # <<>>
    /\ \A i \in 1..Len(q.parsed) : q.parsed[i].t = "string"

\* C19: whatever the decomposition LLM call does, processQuery returns a
\* plan: decomposeQuery gives the original question as a single-element
\* list when the call fails, the status is not 2xx, the content is empty,
\* is not JSON or is JSON that is not a non-empty array of strings; it
\* always gives between 1 and maxSubQueries sub-queries that the expansion
\* can process; a question of fewer than 8 words is returned unchanged
\* without an LLM call.
C19_DecompositionNeverBlocks ==
    /\ qp.pc # "thrown"
    /\ qp.pc \in {"expand", "returned"} =>
           /\ (qp.fetches > 0 /\ ~ArrayOfStrings(qp)) =>
                  qp.subQueries = <<qp.question>>
           /\ Len(qp.subQueries) \in 1..MaxSubQueries
           /\ \A i \in 1..Len(qp.subQueries) : qp.subQueries[i].t = "string"
           /\ qp.question.words < SimpleQuestionWords =>
                  /\ qp.subQueries = <<qp.question>>
                  /\ qp.fetches = 0

\* the LLM answered [123]: processQuery throws out of expandFinancialTerms
C19_ExpansionThrows ==
    /\ qp.pc = "thrown"
    /\ qp.response = "json-array"
    /\ Len(qp.parsed) = 1
    /\ qp.parsed[1].t = "number"
    /\ qp.subQueries = qp.parsed


(***************************************************************************)
(* Document classification: heuristicClassify, llmClassify,                *)
(* classifyDocument.  Confidences are hundredths.                          *)
(***************************************************************************)
HeuristicThreshold == 70    \* result.confidence < 0.7
DefaultConfidence == 70     \* parsed.confidence || 0.7
UnknownConfidence == 30     \* { type: 'unknown', confidence: 0.3 }
FullConfidence == 100       \* Math.min(..., 1.0); confidence 1.0 when disabled

\* the keys of DOCUMENT_TYPES
DocumentTypeKeys ==
    {"10-K", "10-Q", "earnings-transcript", "annual-report",
     "investor-presentation", "proxy-statement", "financial-data", "unknown"}

\* properties DOCUMENT_TYPES inherits from Object.prototype
PrototypeKeys == {"constructor", "toString"}

\* DOCUMENT_TYPES[type] is truthy
Truthy(type) == type \in DocumentTypeKeys \cup PrototypeKeys

\* what the patterns of heuristicClassify find in the sample: a text is the
\* set of the pattern groups that match it
Patterns ==
    {"FORM 10-K", "FORM 10-Q", "PROXY STATEMENT", "EARNINGS CALL",
     "INVESTOR PRESENTATION", "ANNUAL REPORT", "FORM 10"}

\* FORM\s+10 matches wherever FORM\s+10-?K or FORM\s+10-?Q does
ClassifiedTexts ==
    {t \in SUBSET Patterns :
        ({"FORM 10-K", "FORM 10-Q"} \cap t # {}) => "FORM 10" \in t}

heuristicClassify(text) ==
    IF "FORM 10-K" \in text THEN [type |-> "10-K", confidence |-> 90]
    ELSE IF "FORM 10-Q" \in text THEN [type |-> "10-Q", confidence |-> 90]
    ELSE IF "PROXY STATEMENT" \in text
        THEN [type |-> "proxy-statement", confidence |-> 85]
    ELSE IF "EARNINGS CALL" \in text
        THEN [type |-> "earnings-transcript", confidence |-> 85]
    ELSE IF "INVESTOR PRESENTATION" \in text
        THEN [type |-> "investor-presentation", confidence |-> 70]
    ELSE IF "ANNUAL REPORT" \in text /\ "FORM 10" \notin text
        THEN [type |-> "annual-report", confidence |-> 70]
    ELSE [type |-> "unknown", confidence |-> UnknownConfidence]

\* what the fetch of llmClassify can come to: it rejects, the status is not
\* 2xx, the content is empty, is not JSON, is the JSON text null, or is a
\* JSON object
ClassificationResponses ==
    {"rejects", "not-ok", "no-content", "not-json", "json-null", "json-object"}

\* the type of the parsed object: absent (""), a key of DOCUMENT_TYPES, a
\* label outside of it, a property of Object.prototype
ParsedTypes == {"", "10-K", "unknown", "8-K", "constructor"}

\* the confidence of the parsed object: absent or zero (0), low, high,
\* above 1.0
ParsedConfidences == {0, 10, 50, 70, 95, 150}

ParsedObjects == [type : ParsedTypes, confidence : ParsedConfidences]

Unknown == [type |-> "unknown", confidence |-> UnknownConfidence]

\* llmClassify after the fetch settled
llmClassify(response, parsed) ==
    IF response = "json-object" /\ parsed.type # "" /\ Truthy(parsed.type)
    THEN [type |-> parsed.type,
          confidence |->
              Min(IF parsed.confidence # 0 THEN parsed.confidence
                  ELSE DefaultConfidence, FullConfidence)]
    ELSE Unknown

ClassifyInit ==
    /\ ServerIdle
    /\ call = IdleCall
    /\ rr = IdleRerank
    /\ run = IdleRun
    /\ ret = IdleRetrieval
    /\ sec = IdleSection
    /\ fu = IdleFusion
    /\ ck = IdleChunking
    /\ lex = IdleLexical
    /\ qp = IdleQuery
    /\ \E e \in BOOLEAN : cls = [IdleClassify EXCEPT !.enabled = e]
    /\ ss = IdleSession
    /\ tb = IdleTables
    /\ cl = IdleClient

\* classifyDocument(text, apiKey) up to its return or to the fetch of
\* llmClassify
ClassifyDocument(text) ==
    /\ cls.pc = "idle"
    /\ cls' = IF ~cls.enabled
              THEN [cls EXCEPT !.pc = "returned", !.text = text,
                               !.result = [type |-> "unknown",
                                           confidence |-> FullConfidence]]
              ELSE IF heuristicClassify(text).confidence < HeuristicThreshold
              THEN [cls EXCEPT !.pc = "fetch", !.text = text,
                               !.heuristic = heuristicClassify(text),
                               !.fetches = @ + 1]
              ELSE [cls EXCEPT !.pc = "returned", !.text = text,
                               !.heuristic = heuristicClassify(text),
                               !.result = heuristicClassify(text)]
    /\ UNCHANGED offClassify

\* the fetch settles; llmClassify and classifyDocument return
LlmSettles(response, parsed) ==
    /\ cls.pc = "fetch"
    /\ response # "json-object" => parsed = NoResult
    /\ cls' = [cls EXCEPT !.pc = "returned", !.response = response,
                          !.parsed = parsed,
                          !.result = llmClassify(response, parsed)]
    /\ UNCHANGED offClassify

\* the next document
ClassifyAgain ==
    /\ cls.pc = "returned"
    /\ cls' = [IdleClassify EXCEPT !.enabled = cls.enabled]
    /\ UNCHANGED offClassify

ClassifyNext ==
    \/ \E text \in ClassifiedTexts : ClassifyDocument(text)
    \/ /\ cls.pc = "fetch"
       /\ \E response \in ClassificationResponses,
             parsed \in ParsedObjects \cup {NoResult} :
              LlmSettles(response, parsed)
    \/ ClassifyAgain

SpecClassify == ClassifyInit /\ [][ClassifyNext]_vars

\* the LLM gave no usable answer: the call failed, the response cannot be
\* parsed to an object with a type, the type is outside the vocabulary, or
\* the reported confidence is below the threshold of the classifier
Degrades(c) ==
    \/ c.response # "json-object"
    \/ c.parsed.type \notin DocumentTypeKeys
    \/ c.parsed.confidence # 0 /\ c.parsed.confidence < HeuristicThreshold

\* C20: classifyDocument calls the LLM only when the heuristic confidence
\* is below 0.7; it returns type 'unknown' whenever the LLM call fails, the
\* response cannot be parsed, its type is outside the fixed vocabulary or
\* its reported confidence is low; the returned type is always one of the
\* fixed document-type labels.
C20_DegradesToUnknown ==
    /\ cls.fetches > 0 => cls.heuristic.confidence < HeuristicThreshold
    /\ cls.pc = "returned" =>
           /\ cls.result.type \in DocumentTypeKeys
           /\ (cls.fetches > 0 /\ Degrades(cls)) => cls.result.type = "unknown"

\* the LLM answered {"type": "10-K", "confidence": 0.1}: classifyDocument
\* returns 10-K with confidence 0.1
C20_LowConfidenceKept ==
    /\ cls.pc = "returned"
    /\ cls.fetches > 0
    /\ cls.parsed = [type |-> "10-K", confidence |-> 10]
    /\ cls.result = [type |-> "10-K", confidence |-> 10]


(***************************************************************************)
(* Sessions: the report, comparison and Q&A handlers on one uploads        *)
(* directory and one analysisCache.  The statements of a handler between   *)
(* two awaits run without interruption; a deletion issued with fs.unlink   *)
(* is carried out by the thread pool at any later moment.                  *)
(***************************************************************************)
\* the streaming handlers make the same calls on the uploads directory and
\* the analysisCache as these two
SessionReportKinds == {"generate-report", "compare-reports"}

\* the connections r1 and r2 carry report requests, q1 the questions
SessionKindsOf(c) ==
    IF c = "q1" THEN {"ask-question"} ELSE SessionReportKinds

\* the files a report request names
FilesOf(q) == {q.fa, q.fb} \ {NoFile}

\* { vectorStore, bm25Index } of the result of one run
IndexPair(result) == [vectorStore |-> result, bm25Index |-> result]

\* a set that replaces the lexical index and keeps a semantic index that
\* is already there
analysisCacheSetLexical(cache, filename, result) ==
    [cache EXCEPT ![filename] =
        [vectorStore |-> IF @ = NoEntry THEN result ELSE @.vectorStore,
         bm25Index |-> result]]

\* analysisCache.set(filename, { vectorStore, bm25Index })
analysisCacheSet(cache, filename, result) ==
    [cache EXCEPT ![filename] = IndexPair(result)]

\* a handler that drops the entries of its files when its request fails
CacheAfterEvicting(cache, q, ok) ==
    IF ~ok THEN [f \in SessionFiles |->
                    IF f \in FilesOf(q) THEN NoEntry ELSE cache[f]]
    ELSE IF q.kind = "compare-reports"
    THEN analysisCacheSet(analysisCacheSet(cache, q.fa, q.runA), q.fb, q.runB)
    ELSE analysisCacheSet(cache, q.fa, q.runA)

\* the analysisCache after the pipelines of a request settled: the set
\* calls of the try block on success, nothing in catch and finally
CacheAfter(cache, q, ok) ==
    IF ~ok THEN cache
    ELSE IF q.kind = "compare-reports"
    THEN analysisCacheSet(analysisCacheSet(cache, q.fa, q.runA), q.fb, q.runB)
    ELSE analysisCacheSet(cache, q.fa, q.runA)

\* the last successful run per filename
LastAfter(last, q, ok) ==
    IF ~ok THEN last
    ELSE IF q.kind = "compare-reports"
    THEN [[last EXCEPT ![q.fa] = q.runA] EXCEPT ![q.fb] = q.runB]
    ELSE [last EXCEPT ![q.fa] = q.runA]

SessionInit ==
    /\ ServerIdle
    /\ call = IdleCall
    /\ rr = IdleRerank
    /\ run = IdleRun
    /\ ret = IdleRetrieval
    /\ sec = IdleSection
    /\ fu = IdleFusion
    /\ ck = IdleChunking
    /\ lex = IdleLexical
    /\ qp = IdleQuery
    /\ cls = IdleClassify
    /\ ss = IdleSession
    /\ tb = IdleTables
    /\ cl = IdleClient

SetSession(c, q) == [ss EXCEPT !.reqs[c] = q]

\* POST /api/upload: multer stores the file
SessionUpload(f) ==
    /\ f \notin ss.disk
    /\ f \notin ss.unlinking
    /\ ss' = [ss EXCEPT !.disk = @ \cup {f}]
    /\ UNCHANGED offSession

\* a report or comparison handler up to fs.existsSync
SessionReport(c, kind, fa, fb) ==
    /\ ss.reqs[c].pc = "idle"
    /\ kind \in SessionKindsOf(c) \cap SessionReportKinds
    /\ (kind = "compare-reports") <=> (fb # NoFile)
    /\ LET q == [IdleSessionReq EXCEPT !.kind = kind, !.fa = fa, !.fb = fb]
       IN ss' = SetSession(c,
                   IF {fa, fb} \ {NoFile} \subseteq ss.disk
                   THEN [q EXCEPT !.pc = "found", !.found = TRUE]
                   ELSE [q EXCEPT !.pc = "done", !.status = 404])
    /\ UNCHANGED offSession

\* processDocument reads the files (readFileSync): the pipelines start, or
\* the read fails, the catch block answers and finally issues the unlinks
SessionRead(c) ==
    /\ ss.reqs[c].pc = "found"
    /\ LET q == ss.reqs[c]
           two == q.kind = "compare-reports" IN
       IF FilesOf(q) \subseteq ss.disk
       THEN /\ ss.runs + (IF two THEN 2 ELSE 1) <= MaxRuns
            /\ ss' = [SetSession(c, [q EXCEPT !.pc = "pipeline",
                                              !.runA = ss.runs + 1,
                                              !.runB = IF two THEN ss.runs + 2
                                                       ELSE 0])
                        EXCEPT !.runs = @ + (IF two THEN 2 ELSE 1)]
       ELSE ss' = [SetSession(c, [q EXCEPT !.pc = "done", !.status = 500,
                                           !.gone = TRUE])
                      EXCEPT !.unlinking = @ \cup (FilesOf(q) \cap ss.disk)]
    /\ UNCHANGED offSession

\* the awaits of the try block settle: on success the set calls and the
\* response, on failure the catch block; finally issues the unlinks
SessionSettled(c, ok) ==
    /\ ss.reqs[c].pc = "pipeline"
    /\ LET q == ss.reqs[c] IN
       ss' = [SetSession(c, [q EXCEPT !.pc = "done",
                                      !.status = IF ok THEN 200 ELSE 500])
                 EXCEPT !.cache = CacheAfter(@, q, ok),
                        !.last = LastAfter(@, q, ok),
                        !.built = IF ok THEN @ \cup ({q.runA, q.runB} \ {0})
                                  ELSE @,
                        !.unlinking = @ \cup (FilesOf(q) \cap ss.disk)]
    /\ UNCHANGED offSession

\* the thread pool carries out a pending fs.unlink
SessionUnlinked(f) ==
    /\ f \in ss.unlinking
    /\ ss' = [ss EXCEPT !.unlinking = @ \ {f}, !.disk = @ \ {f}]
    /\ UNCHANGED offSession

\* POST /api/ask-question up to the await of answerQuestion
SessionAsk(c, f) ==
    /\ ss.reqs[c].pc = "idle"
    /\ "ask-question" \in SessionKindsOf(c)
    /\ LET q == [IdleSessionReq EXCEPT !.kind = "ask-question", !.fa = f,
                                       !.cached = ss.cache[f],
                                       !.hadReport = ss.last[f] # 0]
       IN ss' = SetSession(c,
                   IF ss.cache[f] = NoEntry
                   THEN [q EXCEPT !.pc = "done", !.status = 404]
                   ELSE [q EXCEPT !.pc = "answering", !.found = TRUE])
    /\ UNCHANGED offSession

\* answerQuestion(cached.vectorStore, ..., cached.bm25Index) settles
SessionAnswered(c, ok) ==
    /\ ss.reqs[c].pc = "answering"
    /\ ss' = SetSession(c, [ss.reqs[c] EXCEPT !.pc = "done",
                                !.status = IF ok THEN 200 ELSE 500])
    /\ UNCHANGED offSession

\* the connection is closed and a later request reuses the slot
SessionReset(c) ==
    /\ ss.reqs[c].pc = "done"
    /\ ss' = SetSession(c, IdleSessionReq)
    /\ UNCHANGED offSession

SessionNext ==
    \/ \E f \in SessionFiles : SessionUpload(f)
    \/ \E c \in SessionConns :
          \/ /\ ss.reqs[c].pc = "idle"
             /\ \E kind \in SessionReportKinds, fa \in SessionFiles,
                   fb \in SessionFiles \cup {NoFile} :
                   SessionReport(c, kind, fa, fb)
          \/ SessionRead(c)
          \/ \E ok \in BOOLEAN : SessionSettled(c, ok)
          \/ \E f \in SessionFiles : SessionAsk(c, f)
          \/ \E ok \in BOOLEAN : SessionAnswered(c, ok)
          \/ SessionReset(c)
    \/ \E f \in SessionFiles : SessionUnlinked(f)

SpecSession == SessionInit /\ [][SessionNext]_vars

\* an entry whose two indices come from one run that returned
Complete(entry) ==
    /\ entry.vectorStore = entry.bm25Index
    /\ entry.vectorStore \in ss.built

\* C22: under any interleaving of report and Q&A requests on one filename
\* a Q&A lookup sees no entry or one complete entry, whose semantic and
\* lexical index were built from the same chunks in one pipeline run; it
\* never sees a half-written entry or the indices of two runs.
C22_LookupSeesOneRun ==
    /\ \A f \in SessionFiles : ss.cache[f] = NoEntry \/ Complete(ss.cache[f])
    /\ \A c \in SessionConns :
           ss.reqs[c].kind = "ask-question" =>
               /\ ss.reqs[c].cached = NoEntry \/ Complete(ss.reqs[c].cached)
               /\ ss.reqs[c].status = 404 <=>
                      (ss.reqs[c].pc = "done" /\ ss.reqs[c].cached = NoEntry)

\* a question is being answered from the entry of one run while a later
\* run has replaced the entry of its filename
C22_Witness ==
    /\ ss.reqs["q1"].pc = "answering"
    /\ ss.reqs["q1"].cached = IndexPair(1)
    /\ ss.cache[ss.reqs["q1"].fa] = IndexPair(2)

\* C29: an uploaded file is deleted only after the request that processes
\* it has read it: a report request that found its files at the existence
\* check never fails because the cleanup of another request removed a file
\* before it was read.
C29_FoundFileIsRead ==
    \A c \in SessionConns : ~(ss.reqs[c].found /\ ss.reqs[c].gone)

\* two report requests name one file; the second passed its existence
\* check and then failed with 500 because the file was gone at the read
C29_FileGoneBeforeRead ==
    /\ ss.reqs["r1"].pc = "done" /\ ss.reqs["r1"].kind = "generate-report"
    /\ ss.reqs["r2"].pc = "done" /\ ss.reqs["r2"].kind = "generate-report"
    /\ ss.reqs["r1"].fa = ss.reqs["r2"].fa
    /\ ss.reqs["r1"].status = 200
    /\ ss.reqs["r2"].found /\ ss.reqs["r2"].gone
    /\ ss.reqs["r2"].status = 500

IndexList(ranking) == \A i \in 1..Len(ranking) : ranking[i].t = "int"

\* the chunks the in-range indices name, in the order of the ranking
Named(ranking, n) ==
    LET kept == SelectSeq(ranking, LAMBDA e : e.v >= 0 /\ e.v < n)
    IN [i \in 1..Len(kept) |-> kept[i].v]

\* the candidates the ranking leaves out, in their original order
Omitted(ranking, n) ==
    SelectSeq(ChunkList(n), LAMBDA c : c \notin Range(Named(ranking, n)))

\* C24: when the reranking LLM returns a JSON array of indices,
\* rerankChunks returns the first topK elements of a reordering of the
\* candidates: the chunks the in-range indices name, in the order of the
\* LLM, then every candidate the ranking left out, in original order; every
\* element of the result is an input chunk and no input chunk appears
\* twice.  With reranking disabled or at most 2 candidates the input is
\* returned unchanged, cut to topK, without an LLM call.
C24_RerankIsReordering ==
    rr.pc = "returned" =>
        /\ (rr.outcome = "array" /\ IndexList(rr.ranking)) =>
               /\ \A i \in 1..Len(rr.result) :
                      rr.result[i] \in Range(ChunkList(rr.n))
               /\ IsDupFree(rr.result)
               /\ rr.result = Slice(Named(rr.ranking, rr.n)
                                        \o Omitted(rr.ranking, rr.n),
                                    RerankK(rr.topK))
        /\ (~rr.enabled \/ rr.n <= 2) =>
               /\ rr.outcome = "none"
               /\ rr.result = Slice(ChunkList(rr.n),
                                    IF rr.topK # 0 THEN rr.topK ELSE rr.n)

\* the LLM answered [0, 0] for three candidates: the first candidate is
\* returned twice and the third is cut off
C24_ChunkTwice ==
    /\ rr.pc = "returned" /\ rr.outcome = "array"
    /\ rr.n = 3 /\ rr.topK = 3
    /\ rr.ranking = <<[t |-> "int", v |-> 0], [t |-> "int", v |-> 0]>>
    /\ rr.result = <<0, 0, 1>>

(***************************************************************************)
(* Tables: detectTables and buildRegion on a text of their own             *)
(***************************************************************************)
\* lines with their characters; the three kinds have three lengths
TableLines ==
    {[kind |-> "row", len |-> 3, stop |-> FALSE, chars |-> <<"|", "a", "|">>],
     [kind |-> "blank", len |-> 0, stop |-> FALSE, chars |-> <<>>],
     [kind |-> "prose", len |-> 2, stop |-> TRUE, chars |-> <<"x", ".">>]}

RECURSIVE Join(_)
\* lines.join('\n')
Join(lines) ==
    IF lines = <<>> THEN <<>>
    ELSE IF Len(lines) = 1 THEN Head(lines).chars
    ELSE Head(lines).chars \o <<"\n">> \o Join(Tail(lines))

RECURSIVE CharOffset(_, _)
\* the loop over the lines before start: charOffset += lines[i].length + 1
CharOffset(lines, start) ==
    IF start = 1 THEN 0
    ELSE CharOffset(lines, start - 1) + Len(lines[start - 1].chars) + 1

\* the offsets without the line feeds
buildRegionNoLineFeed(lines, start, end) ==
    LET tableText == Join(SubSeq(lines, start, end)) IN
    [lineStart |-> start, lineEnd |-> end,
     start |-> CharOffset(lines, start) - (start - 1),
     end |-> CharOffset(lines, start) - (start - 1) + Len(tableText),
     text |-> tableText]

\* buildRegion(lines, start, end, fullText); lines are counted from 1 here
\* as in TableScan, characters from 0 as in the source
buildRegion(lines, start, end) ==
    LET tableText == Join(SubSeq(lines, start, end))
        charOffset == CharOffset(lines, start) IN
    [lineStart |-> start, lineEnd |-> end,
     start |-> charOffset, end |-> charOffset + Len(tableText),
     text |-> tableText]

\* what detectTables returns: buildRegion of every run it pushes
TableRegions(lines) ==
    LET runs == detectTables(lines) IN
    [i \in 1..Len(runs) |->
        buildRegion(lines, runs[i].lineStart, runs[i].lineEnd)]

\* String.prototype.slice(start, end) for 0 <= start <= end <= length
slice(text, start, end) == SubSeq(text, start + 1, end)

TablesInit ==
    /\ ServerIdle
    /\ call = IdleCall
    /\ rr = IdleRerank
    /\ run = IdleRun
    /\ ret = IdleRetrieval
    /\ sec = IdleSection
    /\ fu = IdleFusion
    /\ ck = IdleChunking
    /\ lex = IdleLexical
    /\ qp = IdleQuery
    /\ cls = IdleClassify
    /\ ss = IdleSession
    /\ tb = IdleTables
    /\ cl = IdleClient

\* the text gets one more line
TablesWriteLine(line) ==
    /\ tb.pc = "idle"
    /\ Len(tb.lines) < MaxTableLines
    /\ tb' = [tb EXCEPT !.lines = Append(@, line)]
    /\ UNCHANGED offTables

\* detectTables(text) is called and returns; text.split('\n') has at least
\* one line
DetectTables ==
    /\ tb.pc = "idle"
    /\ tb.lines # <<>>
    /\ tb' = [tb EXCEPT !.pc = "detected", !.tables = TableRegions(tb.lines)]
    /\ UNCHANGED offTables

\* the next text
TablesAgain ==
    /\ tb.pc = "detected"
    /\ tb' = IdleTables
    /\ UNCHANGED offTables

TablesNext ==
    \/ \E line \in TableLines : TablesWriteLine(line)
    \/ DetectTables
    \/ TablesAgain

SpecTables == TablesInit /\ [][TablesNext]_vars

\* the lines of a region that are no table lines
NonTableLines(lines, r) ==
    {i \in r.lineStart..r.lineEnd : ~isTableLine(lines[i])}

\* what C26 says of a region apart from the number of its non-table lines
RegionShape(lines, tables, r) ==
    /\ isTableLine(lines[tables[r].lineStart])
    /\ isTableLine(lines[tables[r].lineEnd])
    /\ tables[r].lineEnd - tables[r].lineStart + 1 >= MinRows
    /\ \A q \in 1..Len(tables) :
           q < r => /\ tables[q].lineEnd < tables[r].lineStart
                    /\ tables[q].end <= tables[r].start
    /\ slice(Join(lines), tables[r].start, tables[r].end) = tables[r].text
    /\ tables[r].text
           = Join(SubSeq(lines, tables[r].lineStart, tables[r].lineEnd))

\* C26 as stated: every region of detectTables starts and ends on a table
\* line, spans at least minRows lines, holds at most one non-table line,
\* overlaps no other region, and text.slice(start, end) is its text, the
\* lines lineStart to lineEnd.
C26_OneNonTableLine ==
    tb.pc = "detected" =>
        \A r \in 1..Len(tb.tables) :
            /\ RegionShape(tb.lines, tb.tables, r)
            /\ Cardinality(NonTableLines(tb.lines, tb.tables[r])) <= 1

\* C26 amended: every region of detectTables starts and ends on a table
\* line, spans at least minRows lines, holds no two non-table lines in a row
\* (single non-table lines between table lines, any number of them),
\* overlaps no other region, and text.slice(start, end) is its text, the
\* lines lineStart to lineEnd.
C26_NoTwoNonTableLinesInARow ==
    tb.pc = "detected" =>
        \A r \in 1..Len(tb.tables) :
            /\ RegionShape(tb.lines, tb.tables, r)
            /\ \A i \in NonTableLines(tb.lines, tb.tables[r]) :
                   (i + 1) \notin NonTableLines(tb.lines, tb.tables[r])

\* a region of three rows with a single non-table line between each two of
\* them, after two lines of prose
C26_Witness ==
    /\ tb.pc = "detected"
    /\ Len(tb.lines) = 8
    /\ Len(tb.tables) = 1
    /\ tb.tables[1].lineStart = 3 /\ tb.tables[1].lineEnd = 7
    /\ tb.tables[1].start = 6
    /\ Cardinality(NonTableLines(tb.lines, tb.tables[1])) = 2

(***************************************************************************)
(* Client: readSSEStream, generateReportStream and handleAnalyze           *)
(***************************************************************************)
\* the bytes of a stream: a line feed, the prefix of a data line, and the
\* halves of a JSON text
LineFeed == [type |-> "\n", half |-> 0]
DataPrefix == [type |-> "data: ", half |-> 0]

\* JSON.stringify(data) of an event, in two halves so that a read can end
\* inside it
Json(type) == <<[type |-> type, half |-> 1], [type |-> type, half |-> 2]>>

\* what sendSSE writes: res.write(`data: ${JSON.stringify(data)}\n\n`)
Written(type) == <<DataPrefix>> \o Json(type) \o <<LineFeed, LineFeed>>

RECURSIVE Wire(_)
\* the bytes of a stream of events
Wire(events) ==
    IF events = <<>> THEN <<>>
    ELSE Written(Head(events)) \o Wire(Tail(events))

\* what the server streams: progress and section events and one terminal
\* event, complete or error, at the end
ServerStreams ==
    {prefix \o <<last>> :
        prefix \in SeqsUpTo({"progress", "section"}, MaxClientEvents - 1),
        last \in {"complete", "error"}}

RECURSIVE SplitLines(_, _, _)
\* buffer.split('\n'): the lines closed so far, then the line being read
SplitLines(chars, line, lines) ==
    IF chars = <<>> THEN Append(lines, line)
    ELSE IF Head(chars) = LineFeed
         THEN SplitLines(Tail(chars), <<>>, Append(lines, line))
    ELSE SplitLines(Tail(chars), Append(line, Head(chars)), lines)

split(buffer) == SplitLines(buffer, <<>>, <<>>)

\* JSON.parse(trimmed.slice(6)) returns, it does not throw
Parses(payload) ==
    /\ Len(payload) = 2
    /\ payload[1].half = 1 /\ payload[2].half = 2
    /\ payload[1].type = payload[2].type

\* the handler handleAnalyze passes to generateReportStream: case 'error'
\* throws, the other cases update the page
Throws(type) == type = "error"

\* one line in the body of the loop: skipped when empty or without the
\* prefix; JSON.parse and onEvent are in one try whose catch is empty
HandleLine(st, line) ==
    IF line = <<>> \/ Head(line) # DataPrefix THEN st
    ELSE IF ~Parses(Tail(line)) THEN st
    ELSE [delivered |-> Append(st.delivered, line[2].type),
          caught |-> st.caught + (IF Throws(line[2].type) THEN 1 ELSE 0)]

RECURSIVE HandleLines(_, _)
\* for (const line of lines)
HandleLines(st, lines) ==
    IF lines = <<>> THEN st
    ELSE HandleLines(HandleLine(st, Head(lines)), Tail(lines))

ClientInit ==
    /\ ServerIdle
    /\ call = IdleCall
    /\ rr = IdleRerank
    /\ run = IdleRun
    /\ ret = IdleRetrieval
    /\ sec = IdleSection
    /\ fu = IdleFusion
    /\ ck = IdleChunking
    /\ lex = IdleLexical
    /\ qp = IdleQuery
    /\ cls = IdleClassify
    /\ ss = IdleSession
    /\ tb = IdleTables
    /\ cl = IdleClient

\* handleAnalyze: the upload, then generateReportStream gets a response with
\* res.ok and calls readSSEStream; events is what the server will have sent
HandleAnalyze(events) ==
    /\ cl.pc = "idle"
    /\ cl' = [IdleClient EXCEPT !.pc = "reading", !.events = events,
                                !.stream = Wire(events),
                                !.toast = "Analysis started"]
    /\ UNCHANGED offClient

\* reader.read() gives the next n bytes: the buffer is split, the closed
\* lines are handled, the last piece stays in the buffer
ClientRead(n) ==
    /\ cl.pc = "reading"
    /\ cl.read + n <= Len(cl.stream)
    /\ LET lines == split(cl.buffer
                          \o SubSeq(cl.stream, cl.read + 1, cl.read + n))
           st == HandleLines([delivered |-> cl.delivered,
                              caught |-> cl.caught],
                             SubSeq(lines, 1, Len(lines) - 1)) IN
       cl' = [cl EXCEPT !.read = @ + n, !.buffer = lines[Len(lines)],
                        !.delivered = st.delivered, !.caught = st.caught]
    /\ UNCHANGED offClient

\* reader.read() gives done: the rest of the buffer is handled, readSSEStream
\* and generateReportStream return, handleAnalyze goes on after its await
ClientDone ==
    /\ cl.pc = "reading"
    /\ cl.read = Len(cl.stream)
    /\ LET st == HandleLine([delivered |-> cl.delivered,
                             caught |-> cl.caught], cl.buffer) IN
       cl' = [cl EXCEPT !.pc = "settled", !.outcome = "resolved",
                        !.delivered = st.delivered, !.caught = st.caught,
                        !.toast = "Analysis complete"]
    /\ UNCHANGED offClient

\* reader.read() rejects, the connection is lost: readSSEStream and
\* generateReportStream reject, handleAnalyze goes to its catch
ClientConnectionLost ==
    /\ cl.pc = "reading"
    /\ cl.read < Len(cl.stream)
    /\ cl' = [cl EXCEPT !.pc = "settled", !.outcome = "rejected",
                        !.toast = "Analysis failed"]
    /\ UNCHANGED offClient

\* the next document
ClientAgain ==
    /\ cl.pc = "settled"
    /\ cl' = IdleClient
    /\ UNCHANGED offClient

ClientNext ==
    \/ /\ cl.pc = "idle"
       /\ \E events \in ServerStreams : HandleAnalyze(events)
    \/ /\ cl.pc = "reading"
       /\ \E n \in 1..Len(cl.stream) : ClientRead(n)
    \/ ClientDone
    \/ ClientConnectionLost
    \/ ClientAgain

SpecClient == ClientInit /\ [][ClientNext]_vars

\* the events reach the handler in the order of the stream, whatever the
\* reads, and all of them once the stream has been read to its end
DeliveredInOrder ==
    /\ IsPrefix(cl.delivered, cl.events)
    /\ cl.pc = "settled" /\ cl.outcome = "resolved" =>
           cl.delivered = cl.events

\* C28: an error event received in the stream makes the streaming call
\* reject, so that the page takes its failure path and does not report the
\* analysis as complete; the events reach the handler in the order of the
\* stream whatever way the bytes are split into reads.
C28_ErrorEventRejects ==
    /\ DeliveredInOrder
    /\ cl.pc = "settled" /\ "error" \in Range(cl.delivered) =>
           /\ cl.outcome = "rejected"
           /\ cl.toast = "Analysis failed"

\* the server ends the stream with an error event, the handler throws, and
\* the page reports the analysis as complete
C28_ErrorReportedComplete ==
    /\ cl.pc = "settled"
    /\ cl.events = <<"progress", "error">>
    /\ cl.delivered = cl.events
    /\ cl.caught = 1
    /\ cl.outcome = "resolved"
    /\ cl.toast = "Analysis complete"


=============================================================================
